---- MODULE Spec2Model ----
(***************************************************************************)
(* Model of the Artagon CLI core (scripts/cli/core.py) and of the Java     *)
(* command handlers (scripts/cli/commands/java.py).                        *)
(*                                                                         *)
(* Strings whose content the code inspects (command paths, tokens,         *)
(* versions, branch names) are sequences of one-character strings, so that *)
(* strip, lower, join, startswith and removeprefix are computed and not    *)
(* assumed.  An Optional value is <<>> (None) or <<x>> (the value x).      *)
(***************************************************************************)
EXTENDS Integers, Sequences, FiniteSets, TLC

VARIABLES
    commands,   \* CommandRegistry._commands : normalized key -> CommandSpec
    call,       \* the last direct call (registry, version arithmetic) and its argument
    ret,        \* what that call returned or raised
    ctx,        \* the CommandContext handed to run / to the handler
    world,      \* what the external tools answer (git state)
    procs,      \* external processes really started by subprocess.run, in order
    out,        \* lines printed on standard output, in order
    files,      \* files of the repository written outside of ctx.run, in order
    invoked,    \* the last handler entered and the argument list handed to it
    err,        \* lines printed on standard error, in order
    runRet,     \* result of the last direct CommandContext.run call
    options,    \* the handler-local ReleaseOptions
    steps,      \* the step list handed to pipeline(...)
    idx,        \* number of steps the runner has completed
    called,     \* the steps the runner has called, in order
    result,     \* runner-local `result`: value returned by the last step
    raised,     \* the exception that left the pipeline, <<>> if none
    code,       \* what the handler returned / how the invocation ended
    phase       \* "idle", "pipeline", "release", "done"

regVars == <<commands, call, ret>>
fxVars == <<procs, out, files>>
pipeVars == <<steps, idx, called, result, raised>>
vars == <<commands, call, ret, ctx, world, procs, out, files, invoked, err, runRet,
          options, steps, idx, called, result, raised, code, phase>>

None == <<>>
Some(x) == <<x>>

\* ------------------------------------------------------------------ bounds

MaxTokens == 3      \* longest token list handed to find
MaxRuns == 2        \* direct CommandContext.run calls in one behaviour
MaxSteps == 3       \* longest pipeline composed from the generic steps
MaxParts == 2       \* dot-separated components of the enumerated versions

\* ----------------------------------------------------------------- strings

IsPrefix(s, t) == Len(s) <= Len(t) /\ SubSeq(t, 1, Len(s)) = s

IsProperPrefix(s, t) == IsPrefix(s, t) /\ Len(s) < Len(t)

\* str.lower() on the alphabet of the model
LowerChar(ch) ==
    CASE ch = "A" -> "a"
      [] ch = "B" -> "b"
      [] OTHER -> ch

Lower(s) == [i \in DOMAIN s |-> LowerChar(s[i])]

IsSpace(ch) == ch \in {" ", "\n"}

RECURSIVE LStrip(_)
LStrip(s) == IF s # <<>> /\ IsSpace(Head(s)) THEN LStrip(Tail(s)) ELSE s

RECURSIVE RStrip(_)
RStrip(s) ==
    IF s # <<>> /\ IsSpace(s[Len(s)]) THEN RStrip(SubSeq(s, 1, Len(s) - 1)) ELSE s

\* str.strip()
Strip(s) == RStrip(LStrip(s))

\* " ".join(tokens)
RECURSIVE Join(_)
Join(tokens) ==
    IF tokens = <<>> THEN <<>>
    ELSE IF Len(tokens) = 1 THEN tokens[1]
    ELSE tokens[1] \o <<" ">> \o Join(Tail(tokens))

\* ----------------------------------------------------------------- context

SKIP_GIT_CLEAN == "ARTAGON_SKIP_GIT_CLEAN"
SKIP_RELEASE_STEPS == "ARTAGON_SKIP_RELEASE_STEPS"

\* dict.get(name): None when the variable is not in the mapping
EnvGet(env, name) == IF name \in DOMAIN env THEN Some(env[name]) ELSE None

\* The environment mappings of the model: each variable absent or "1", and one
\* mapping that sets both to "0".
Envs ==
    UNION { [S -> {"1"}] : S \in SUBSET {SKIP_GIT_CLEAN, SKIP_RELEASE_STEPS} }
    \cup { [v \in {SKIP_GIT_CLEAN, SKIP_RELEASE_STEPS} |-> "0"] }

\* CLIConfig(): language "java", owner None, repo None
DefaultConfig == [language |-> "java", owner |-> None, repo |-> None]

Configs ==
    { [language |-> "java", owner |-> o, repo |-> r] :
        o \in {None, Some("artagon")}, r \in {None, Some("artagon-common")} }

CommandContext(cwd, env, dry_run, config) ==
    [cwd |-> cwd, env |-> env, dry_run |-> dry_run, config |-> config]

Contexts ==
    { CommandContext("root", e, d, c) : e \in Envs, d \in BOOLEAN, c \in Configs }

\* What an external process does once started: its exit code and its output.
ProcessOutcomes ==
    { [returncode |-> rc, stdout |-> o] : rc \in {0, 1}, o \in {<<>>, <<"t">>} }

\* Mutant: the dry-run flag is ignored, every call is executed.
RunIgnoresDryRun(c, command, check, capture_output, cwd, read_only, proc) ==
    [started |-> << [argv |-> command,
                     cwd |-> IF cwd # None THEN cwd[1] ELSE c.cwd,
                     env |-> c.env,
                     read_only |-> read_only,
                     returncode |-> proc.returncode] >>,
     printed |-> <<>>,
     returncode |-> proc.returncode,
     stdout |-> IF capture_output THEN Some(proc.stdout) ELSE None,
     raised |-> IF check /\ proc.returncode # 0 THEN "CalledProcessError" ELSE ""]

\* Mutant: under dry-run read-only calls are suppressed too.
RunSuppressesReadOnly(c, command, check, capture_output, cwd, read_only, proc) ==
    IF c.dry_run
    THEN [started |-> <<>>,
          printed |-> << [tag |-> "[dry-run]", text |-> command] >>,
          returncode |-> 0,
          stdout |-> Some(<<>>),
          raised |-> ""]
    ELSE RunIgnoresDryRun(c, command, check, capture_output, cwd, read_only, proc)

\* CommandContext.run: the process it starts (if any), the line it prints (if
\* any), and the CompletedProcess it returns or the error it raises.
Run(c, command, check, capture_output, cwd, read_only, proc) ==
    IF c.dry_run /\ ~read_only
    THEN [started |-> <<>>,
          printed |-> << [tag |-> "[dry-run]", text |-> command] >>,
          returncode |-> 0,
          stdout |-> Some(<<>>),
          raised |-> ""]
    ELSE [started |-> << [argv |-> command,
                          cwd |-> IF cwd # None THEN cwd[1] ELSE c.cwd,
                          env |-> c.env,
                          read_only |-> read_only,
                          returncode |-> proc.returncode] >>,
          printed |-> <<>>,
          returncode |-> proc.returncode,
          stdout |-> IF capture_output THEN Some(proc.stdout) ELSE None,
          raised |-> IF check /\ proc.returncode # 0
                     THEN "CalledProcessError" ELSE ""]

\* The commands handed to run directly.
RunCommands == { <<"git", "status">>, <<"mvn", "clean", "deploy">> }

\* A direct call of ctx.run(command, check=, capture_output=, cwd=, read_only=).
CtxRun(command, check, capture_output, cwd, read_only, proc) ==
    LET n == IF runRet = None THEN 0 ELSE runRet[1].n
        r == Run(ctx, command, check, capture_output, cwd, read_only, proc)
    IN  /\ phase = "idle"
        /\ n < MaxRuns
        /\ procs' = procs \o r.started
        /\ out' = out \o r.printed
        /\ runRet' = Some([n |-> n + 1,
                           command |-> command,
                           check |-> check,
                           capture_output |-> capture_output,
                           read_only |-> read_only,
                           returncode |-> r.returncode,
                           stdout |-> r.stdout,
                           raised |-> r.raised])
        /\ UNCHANGED <<commands, call, ret, ctx, world, invoked, err, files, options,
                       steps, idx, called, result, raised, code, phase>>

\* ---------------------------------------------------------------- registry

\* Mutant: the key is stripped but not lowercased.
NormalizeKeyNoLower(path) == Strip(path)

\* key = spec.path.strip().lower()
NormalizeKey(path) == Lower(Strip(path))

\* The command paths of the model, each written as its tokens.
PathTokens ==
    { << <<"a">> >>,
      << <<"a">>, <<"B">> >>,
      << <<"a">>, <<"b">> >>,
      << <<"a">>, <<"B">>, <<"a">> >> }

\* The paths that are also registered with blanks around them.
PaddedTokens == { << <<"a">> >> }

\* A path string: its tokens joined by one space, possibly with blanks around.
PathString(tokens, padded) ==
    IF padded THEN <<" ">> \o Join(tokens) \o <<" ">> ELSE Join(tokens)

Handlers == {"h1", "h2"}

CommandSpec(path, handler) == [path |-> path, help |-> "help", handler |-> handler]

Specs ==
    { CommandSpec(PathString(t, FALSE), h) : t \in PathTokens, h \in Handlers }
    \cup { CommandSpec(PathString(t, TRUE), h) : t \in PaddedTokens, h \in Handlers }

\* Mutant: the duplicate test compares the stripped path without lowercasing it.
RegisterRaisesCaseSensitive(cmds, spec) == Strip(spec.path) \in DOMAIN cmds

\* if key in self._commands: raise ValueError(...)
RegisterRaises(cmds, spec) == NormalizeKey(spec.path) \in DOMAIN cmds

\* Mutant: storing a spec drops the entries registered before.
RegisterStoreDropsOthers(cmds, spec) ==
    [k \in {NormalizeKey(spec.path)} |-> spec]

\* self._commands[key] = spec
RegisterStore(cmds, spec) ==
    LET key == NormalizeKey(spec.path)
    IN  [k \in DOMAIN cmds \cup {key} |-> IF k = key THEN spec ELSE cmds[k]]

Register(spec) ==
    /\ call' = [op |-> "register", spec |-> Some(spec), tokens |-> <<>>]
    /\ IF RegisterRaises(commands, spec)
       THEN /\ ret' = [raised |-> "ValueError", spec |-> None, rest |-> <<>>]
            /\ UNCHANGED commands
       ELSE /\ ret' = [raised |-> "", spec |-> None, rest |-> <<>>]
            /\ commands' = RegisterStore(commands, spec)
    /\ UNCHANGED <<ctx, world, invoked, err, procs, out, files, runRet, options,
                   steps, idx, called, result, raised, code, phase>>

\* Mutant: the search runs from the shortest prefix to the longest.
RECURSIVE FindUpFrom(_, _, _, _)
FindUpFrom(cmds, original, lowered, j) ==
    IF j > Len(lowered) THEN [spec |-> None, rest |-> original]
    ELSE LET key == Join(SubSeq(lowered, 1, j))
         IN  IF key \in DOMAIN cmds
             THEN [spec |-> Some(cmds[key]),
                   rest |-> SubSeq(original, j + 1, Len(original))]
             ELSE FindUpFrom(cmds, original, lowered, j + 1)

FindFromShortestFirst(cmds, original, lowered, i) == FindUpFrom(cmds, original, lowered, 1)

\* Mutant: the remainder starts at the last matched token.
RECURSIVE FindFromKeepsLastMatched(_, _, _, _)
FindFromKeepsLastMatched(cmds, original, lowered, i) ==
    IF i = 0 THEN [spec |-> None, rest |-> original]
    ELSE LET key == Join(SubSeq(lowered, 1, i))
         IN  IF key \in DOMAIN cmds
             THEN [spec |-> Some(cmds[key]),
                   rest |-> SubSeq(original, i, Len(original))]
             ELSE FindFromKeepsLastMatched(cmds, original, lowered, i - 1)

\* for i in range(len(lowered), 0, -1): first key found wins
RECURSIVE FindFrom(_, _, _, _)
FindFrom(cmds, original, lowered, i) ==
    IF i = 0 THEN [spec |-> None, rest |-> original]
    ELSE LET key == Join(SubSeq(lowered, 1, i))
         IN  IF key \in DOMAIN cmds
             THEN [spec |-> Some(cmds[key]),
                   rest |-> SubSeq(original, i + 1, Len(original))]
             ELSE FindFrom(cmds, original, lowered, i - 1)

\* Mutant: the remainder is cut from the lowercased tokens.
FindResultLoweredRest(cmds, tokens) ==
    LET lowered == [i \in DOMAIN tokens |-> Lower(tokens[i])]
    IN  FindFrom(cmds, lowered, lowered, Len(lowered))

\* find: original = list(tokens); lowered = [token.lower() ...]; the loop
FindResult(cmds, tokens) ==
    LET original == tokens
        lowered == [i \in DOMAIN original |-> Lower(original[i])]
    IN  FindFrom(cmds, original, lowered, Len(lowered))

\* The tokens a caller may hand to find.
FindWords == { <<"a">>, <<"b">>, <<"B">> }

TokenLists == UNION { [1..n -> FindWords] : n \in 0..MaxTokens }

Find(tokens) ==
    LET r == FindResult(commands, tokens)
    IN  /\ call' = [op |-> "find", spec |-> None, tokens |-> tokens]
        /\ ret' = [raised |-> "", spec |-> r.spec, rest |-> r.rest]
        /\ UNCHANGED <<commands, ctx, world, invoked, err, procs, out, files, runRet, options,
                       steps, idx, called, result, raised, code, phase>>

\* ------------------------------------------------------- registry: claims

Registered == { commands[k] : k \in DOMAIN commands }

\* The token sequences a registered path string is written with.
TokensOf(path) ==
    { t \in PathTokens :
        \/ path = PathString(t, FALSE)
        \/ t \in PaddedTokens /\ path = PathString(t, TRUE) }

\* The normalized path of a token list: lowercased tokens joined by one space.
LoweredJoin(tokens) == Join([i \in DOMAIN tokens |-> Lower(tokens[i])])

\* C6 as stated: A, B registered, A's tokens a proper prefix of B's; find on B's
\* tokens, optionally followed by extra tokens, returns B's spec.
C6_AsStated ==
    call.op = "find" =>
        \A A \in Registered, B \in Registered :
            \A tA \in TokensOf(A.path), tB \in TokensOf(B.path) :
                (IsProperPrefix(tA, tB) /\ IsPrefix(tB, call.tokens))
                    => ret.spec = Some(B)

\* C6 (amended): A, B registered, A's tokens a proper prefix of B's; find on
\* exactly B's tokens returns B's spec; on B's tokens followed by extra tokens it
\* returns B's spec unless a longer registered path matches a longer prefix of
\* the input, and then it returns that path's spec; it never returns A's.
C6_LongestPrefixWins ==
    call.op = "find" =>
        \A A \in Registered, B \in Registered :
            \A tA \in TokensOf(A.path), tB \in TokensOf(B.path) :
                (IsProperPrefix(tA, tB) /\ IsPrefix(tB, call.tokens))
                    => /\ ret.spec # Some(A)
                       /\ call.tokens = tB => ret.spec = Some(B)
                       /\ \/ ret.spec = Some(B)
                          \/ \E C \in Registered :
                                \E n \in (Len(tB) + 1)..Len(call.tokens) :
                                   /\ ret.spec = Some(C)
                                   /\ LoweredJoin(SubSeq(call.tokens, 1, n))
                                          = NormalizeKey(C.path)
                                   /\ \A m \in (n + 1)..Len(call.tokens) :
                                          \A D \in Registered :
                                             LoweredJoin(SubSeq(call.tokens, 1, m))
                                                 # NormalizeKey(D.path)

\* C6 witness: a path and a longer path extending it are registered, and find
\* on the longer path's tokens plus one extra token returned the longer spec.
C6_Witness ==
    /\ call.op = "find"
    /\ call.tokens = << <<"a">>, <<"B">>, <<"b">> >>
    /\ \E A \in Registered, B \in Registered :
          /\ << <<"a">> >> \in TokensOf(A.path)
          /\ << <<"a">>, <<"B">> >> \in TokensOf(B.path)
          /\ ret.spec = Some(B)
          /\ ret.rest = << <<"b">> >>

\* C7: find on exactly the token sequence of a registered path returns that
\* path's spec and an empty remainder.
C7_ExactPathFound ==
    call.op = "find" =>
        \A P \in Registered :
            call.tokens \in TokensOf(P.path)
                => ret.spec = Some(P) /\ ret.rest = <<>>

\* C7 witness: a path registered in upper case and one with blanks around it
\* are in the registry, and find on the upper-case path's tokens returned it.
C7_Witness ==
    /\ call.op = "find"
    /\ call.tokens = << <<"a">>, <<"B">> >>
    /\ \E P \in Registered :
          /\ call.tokens \in TokensOf(P.path)
          /\ ret.spec = Some(P)
    /\ \E Q \in Registered : Q.path = PathString(<< <<"a">> >>, TRUE)

\* C8: when no non-empty prefix of the lowercased input tokens equals a
\* registered (normalized) path, find returns no spec and the full input token
\* list, in its original order and letter case, as remainder.
C8_NoMatchKeepsTokens ==
    call.op = "find" =>
        ((\A i \in 1..Len(call.tokens) :
             \A P \in Registered :
                 LoweredJoin(SubSeq(call.tokens, 1, i)) # NormalizeKey(P.path))
            => ret.spec = None /\ ret.rest = call.tokens)

\* C8 witness: a non-empty registry, an input with an upper-case token that
\* matches nothing, and find returned None with the input unchanged.
C8_Witness ==
    /\ call.op = "find"
    /\ Registered # {}
    /\ call.tokens = << <<"B">>, <<"a">> >>
    /\ ret.spec = None
    /\ ret.rest = << <<"B">>, <<"a">> >>

\* C9: register raises the duplicate-path error whenever a spec with the same
\* normalized path is already registered, so no two registered specs share a
\* normalized path and each is stored under its own normalized path.
C9_DuplicateRejected ==
    /\ [](\A k \in DOMAIN commands : NormalizeKey(commands[k].path) = k)
    /\ [][\A spec \in Specs :
            (/\ call'.op = "register"
             /\ call'.spec = Some(spec)
             /\ \E P \in Registered : NormalizeKey(P.path) = NormalizeKey(spec.path))
                => (ret'.raised = "ValueError" /\ commands' = commands)]_vars

\* C9 witness: a register call was refused although the path it carried is
\* spelled differently from the registered one (other letter case).
C9_Witness ==
    /\ call.op = "register"
    /\ ret.raised = "ValueError"
    /\ \E P \in Registered :
          /\ NormalizeKey(P.path) = NormalizeKey(call.spec[1].path)
          /\ P.path # call.spec[1].path
          /\ Strip(P.path) # Strip(call.spec[1].path)

\* -------------------------------------------------------------------- init

\* The state before any call: an empty registry, nothing run, no handler
\* entered, with context c and external world w.
InitWith(c, w) ==
    /\ commands = << >>
    /\ call = [op |-> "none", spec |-> None, tokens |-> <<>>]
    /\ ret = [raised |-> "", spec |-> None, rest |-> <<>>]
    /\ ctx = c
    /\ world = w
    /\ procs = <<>>
    /\ out = <<>>
    /\ files = <<>>
    /\ invoked = [handler |-> "", args |-> <<>>]
    /\ err = <<>>
    /\ runRet = None
    /\ options = None
    /\ steps = <<>>
    /\ idx = 0
    /\ called = <<>>
    /\ result = None
    /\ raised = None
    /\ code = None
    /\ phase = "idle"

DefaultContext == CommandContext("root", << >>, FALSE, DefaultConfig)

DefaultWorld == [status |-> <<>>, branch |-> <<"main", "\n">>]

InitRegistry == InitWith(DefaultContext, DefaultWorld)

RegisterAny == \E spec \in Specs : Register(spec)

FindAny == \E tokens \in TokenLists : Find(tokens)

NextRegistry == RegisterAny \/ FindAny

SpecRegistry == InitRegistry /\ [][NextRegistry]_vars

\* ----------------------------------------------------------------- pipeline

\* runner: `for step in steps:` -- the step called after i steps have returned,
\* None once the loop is over.
RunnerNext(ss, i) == IF i < Len(ss) THEN Some(ss[i + 1]) ELSE None

\* Mutant: the runner swallows the exception and goes on with the next step.
RunnerOnRaiseSwallow(i) == [over |-> FALSE, idx |-> i + 1]

\* runner has no try/except: an exception raised by step i+1 leaves the loop
\* at once; the runner is over and no step has been added to the completed ones.
RunnerOnRaise(i) == [over |-> TRUE, idx |-> i]

\* Mutant: the runner keeps the first value a step returned.
RunnerResultKeepsFirst(previous, value) ==
    IF previous = Some("None") THEN Some(value) ELSE previous

\* runner: `result = step(ctx)` overwrites what the earlier steps returned.
RunnerResult(previous, value) == Some(value)

\* The generic steps: each returns a value or raises an error when called.
GenericSteps ==
    { [kind |-> "return", value |-> "None"],
      [kind |-> "return", value |-> "v1"],
      [kind |-> "return", value |-> "v2"],
      [kind |-> "raise", value |-> "E1"],
      [kind |-> "raise", value |-> "E2"] }

StepLists == UNION { [1..n -> GenericSteps] : n \in 0..MaxSteps }

\* pipeline(*ss)(ctx): the runner starts with result = None.
PipelineInvoke(ss) ==
    /\ phase = "idle"
    /\ steps' = ss
    /\ idx' = 0
    /\ called' = <<>>
    /\ result' = Some("None")
    /\ raised' = None
    /\ phase' = "pipeline"
    /\ UNCHANGED <<commands, call, ret, ctx, world, invoked, err, procs, out, files, runRet,
                   options, code>>

\* One iteration of the runner's loop: result = step(ctx).
RunnerStep ==
    /\ phase = "pipeline"
    /\ RunnerNext(steps, idx) # None
    /\ LET st == RunnerNext(steps, idx)[1]
       IN  /\ called' = Append(called, st)
           /\ IF st.kind = "raise"
              THEN /\ raised' = Some(st.value)
                   /\ idx' = RunnerOnRaise(idx).idx
                   /\ phase' = IF RunnerOnRaise(idx).over THEN "done" ELSE phase
                   /\ UNCHANGED result
              ELSE /\ result' = RunnerResult(result, st.value)
                   /\ idx' = idx + 1
                   /\ UNCHANGED <<raised, phase>>
    /\ UNCHANGED <<commands, call, ret, ctx, world, invoked, err, procs, out, files, runRet,
                   options, steps, code>>

\* The loop is over: return result.
RunnerReturn ==
    /\ phase = "pipeline"
    /\ RunnerNext(steps, idx) = None
    /\ phase' = "done"
    /\ UNCHANGED <<commands, call, ret, ctx, world, invoked, err, procs, out, files, runRet,
                   options, steps, idx, called, result, raised, code>>

PipelineInvokeAny == \E ss \in StepLists : PipelineInvoke(ss)

NextPipeline == PipelineInvokeAny \/ RunnerStep \/ RunnerReturn

SpecPipeline == InitRegistry /\ [][NextPipeline]_vars

\* C1: the runner calls the steps strictly in the given order, one at a time;
\* if step k raises, steps k+1..N are never called and the caller observes
\* exactly the error step k raised.
C1_InOrderAbortOnRaise ==
    /\ [](phase \in {"pipeline", "done"} =>
            /\ IsPrefix(called, steps)
            /\ \A k \in 1..Len(called) :
                  called[k].kind = "raise"
                      => /\ k = Len(called)
                         /\ phase = "done"
                         /\ raised = Some(called[k].value)
            /\ (raised # None =>
                  /\ called # <<>>
                  /\ called[Len(called)].kind = "raise")
            /\ (phase = "done" /\ raised = None => called = steps))
    /\ [][phase = "pipeline" =>
            \/ called' = called
            \/ called' = Append(called, steps[Len(called) + 1])]_vars

\* C1 witness: a three-step pipeline whose second step raised: the first two
\* steps were called, the third was not, and the caller got the second's error.
C1_Witness ==
    /\ phase = "done"
    /\ Len(steps) = 3
    /\ steps[1].kind = "return"
    /\ steps[2] = [kind |-> "raise", value |-> "E2"]
    /\ steps[3].kind = "raise"
    /\ called = SubSeq(steps, 1, 2)
    /\ raised = Some("E2")

\* ------------------------------------------------------------ release data

\* Python truthiness of an Optional string: None and "" are falsy.
Falsy(opt) == opt = None \/ opt[1] = <<>>

StartsWith(s, prefix) == IsPrefix(prefix, s)

RemovePrefix(s, prefix) ==
    IF StartsWith(s, prefix) THEN SubSeq(s, Len(prefix) + 1, Len(s)) ELSE s

\* "release-", kept as one symbol of the branch name
ReleasePrefix == <<"release-">>

\* The version strings of the model: "", "1.2", "2.x".
VersionStrings == { <<>>, <<"1", ".", "2">>, <<"2", ".", "x">> }

\* What `git symbolic-ref --short HEAD` prints: nothing, or a branch name and a
\* newline.
BranchOutputs ==
    { <<>>, <<"main", "\n">>, <<"release-", "\n">> }
    \cup { ReleasePrefix \o v \o <<"\n">> : v \in VersionStrings \ {<<>>} }

\* What `git status --porcelain` prints: nothing, or a changed file.
StatusOutputs == { <<>>, <<"M", " ", "f", "\n">> }

Worlds == { [status |-> st, branch |-> b] : st \in StatusOutputs, b \in BranchOutputs }

Digits == <<"0", "1", "2", "3", "4", "5", "6", "7", "8", "9">>

IsDigit(ch) == \E d \in 1..10 : Digits[d] = ch

DigitValue(ch) == (CHOOSE d \in 1..10 : Digits[d] = ch) - 1

\* The text int() converts once blanks around it and a sign are removed.
Unsigned(s) ==
    LET t == Strip(s)
    IN  IF t # <<>> /\ t[1] \in {"+", "-"} THEN Tail(t) ELSE t

\* int(s) succeeds on decimal digits, single underscores allowed between
\* digits, an optional sign before them and blanks around the whole.
IsInt(s) ==
    LET u == Unsigned(s)
    IN  /\ u # <<>>
        /\ IsDigit(u[1])
        /\ IsDigit(u[Len(u)])
        /\ \A i \in DOMAIN u : IsDigit(u[i]) \/ u[i] = "_"
        /\ \A i \in 1..(Len(u) - 1) : ~(u[i] = "_" /\ u[i + 1] = "_")

\* The value of a run of digits and underscores.
RECURSIVE DigitsValue(_)
DigitsValue(u) ==
    IF u = <<>> THEN 0
    ELSE IF u[Len(u)] = "_" THEN DigitsValue(SubSeq(u, 1, Len(u) - 1))
    ELSE 10 * DigitsValue(SubSeq(u, 1, Len(u) - 1)) + DigitValue(u[Len(u)])

\* int(s), for a text int() accepts
IntOf(s) ==
    IF Strip(s)[1] = "-" THEN 0 - DigitsValue(Unsigned(s)) ELSE DigitsValue(Unsigned(s))

\* str(n)
RECURSIVE StrOf(_)
StrOf(n) ==
    IF n < 0 THEN <<"-">> \o StrOf(0 - n)
    ELSE IF n < 10 THEN <<Digits[n + 1]>>
    ELSE StrOf(n \div 10) \o <<Digits[(n % 10) + 1]>>

\* version.split(".")
RECURSIVE SplitDots(_)
SplitDots(s) ==
    IF \A i \in DOMAIN s : s[i] # "."
    THEN <<s>>
    ELSE LET d == CHOOSE i \in DOMAIN s : s[i] = "." /\ \A j \in 1..(i - 1) : s[j] # "."
         IN  <<SubSeq(s, 1, d - 1)>> \o SplitDots(SubSeq(s, d + 1, Len(s)))

\* ".".join(parts)
RECURSIVE JoinDots(_)
JoinDots(parts) ==
    IF Len(parts) = 1 THEN parts[1]
    ELSE parts[1] \o <<".">> \o JoinDots(Tail(parts))

\* Mutant: the first component is incremented instead of the last.
calculate_next_snapshot_first(version) ==
    LET parts == SplitDots(version)
    IN  IF ~IsInt(parts[Len(parts)]) \/ ~IsInt(parts[1]) THEN None
        ELSE Some(JoinDots([parts EXCEPT ![1] = StrOf(IntOf(parts[1]) + 1)])
                  \o <<"-SNAPSHOT">>)

\* calculate_next_snapshot: None when int() raises ValueError
calculate_next_snapshot(version) ==
    LET parts == SplitDots(version)
        last == parts[Len(parts)]
    IN  IF ~IsInt(last) THEN None
        ELSE Some(JoinDots([parts EXCEPT ![Len(parts)] = StrOf(IntOf(last) + 1)])
                  \o <<"-SNAPSHOT">>)

ReleaseOptions(action, version, deploy, allow_mismatch) ==
    [action |-> action, version |-> version, deploy |-> deploy,
     allow_mismatch |-> allow_mismatch, branch |-> None, next_version |-> None]

\* The argparse namespaces parse_args can return for `java release`.
ReleaseNamespaces ==
    { [command |-> "run", branch_cmd |-> "", version |-> v,
       allow_branch_mismatch |-> m, deploy |-> FALSE] :
        v \in {None} \cup {Some(x) : x \in VersionStrings}, m \in BOOLEAN }
    \cup { [command |-> "tag", branch_cmd |-> "", version |-> Some(v),
            allow_branch_mismatch |-> FALSE, deploy |-> FALSE] : v \in VersionStrings }
    \cup { [command |-> "branch", branch_cmd |-> "cut", version |-> Some(v),
            allow_branch_mismatch |-> FALSE, deploy |-> FALSE] : v \in VersionStrings }
    \cup { [command |-> "branch", branch_cmd |-> "stage", version |-> None,
            allow_branch_mismatch |-> m, deploy |-> d] : m \in BOOLEAN, d \in BOOLEAN }

\* _parse_release_args, from the parsed namespace to the ReleaseOptions
ParseReleaseOptions(parsed) ==
    IF parsed.command = "run"
    THEN ReleaseOptions("RUN", parsed.version, FALSE, parsed.allow_branch_mismatch)
    ELSE IF parsed.command = "tag"
    THEN ReleaseOptions("TAG", parsed.version, FALSE, FALSE)
    ELSE IF parsed.command = "branch" /\ parsed.branch_cmd = "cut"
    THEN ReleaseOptions("BRANCH_CUT", parsed.version, FALSE, FALSE)
    ELSE ReleaseOptions("BRANCH_STAGE", None, parsed.deploy, parsed.allow_branch_mismatch)

\* Mutant: for `run`, deploy_release is placed before commit_release.
ReleaseStepsDeployFirst(o) ==
    IF o.action = "RUN"
    THEN <<"ensure_repository_clean", "ensure_release_branch", "log_release_plan",
           "validate_build", "update_versions_to_release", "update_checksums",
           "deploy_release", "commit_release", "bump_to_next_snapshot",
           "commit_next_iteration", "summarize_release">>
    ELSE <<"ensure_repository_clean", "log_release_plan">>

\* Mutant: for `run`, deploy_release is placed before the version update.
ReleaseStepsDeployBeforeVersions(o) ==
    IF o.action = "RUN"
    THEN <<"ensure_repository_clean", "ensure_release_branch", "log_release_plan",
           "validate_build", "deploy_release", "update_versions_to_release",
           "update_checksums", "commit_release", "bump_to_next_snapshot",
           "commit_next_iteration", "summarize_release">>
    ELSE <<"ensure_repository_clean", "log_release_plan">>

\* Mutant: branch stage deploys whether or not --deploy was given, and branch
\* cut checks the branch.
ReleaseStepsStageAlwaysDeploys(o) ==
    <<"ensure_repository_clean", "ensure_release_branch", "log_release_plan">>
    \o (IF o.action = "RUN"
        THEN <<"validate_build", "update_versions_to_release", "update_checksums",
               "commit_release", "deploy_release", "bump_to_next_snapshot",
               "commit_next_iteration", "summarize_release">>
        ELSE IF o.action = "TAG" THEN <<"create_release_tag">>
        ELSE IF o.action = "BRANCH_CUT" THEN <<"create_release_branch">>
        ELSE <<"validate_build", "deploy_release", "summarize_stage">>)

\* handle_release: the step list built from the options
ReleaseSteps(o) ==
    <<"ensure_repository_clean">>
    \o (IF o.action # "BRANCH_CUT" THEN <<"ensure_release_branch">> ELSE <<>>)
    \o <<"log_release_plan">>
    \o (IF o.action = "RUN"
        THEN <<"validate_build", "update_versions_to_release", "update_checksums",
               "commit_release", "deploy_release", "bump_to_next_snapshot",
               "commit_next_iteration", "summarize_release">>
        ELSE IF o.action = "TAG" THEN <<"create_release_tag">>
        ELSE IF o.action = "BRANCH_CUT" THEN <<"create_release_branch">>
        ELSE <<"validate_build">>
             \o (IF o.deploy THEN <<"deploy_release">> ELSE <<>>)
             \o <<"summarize_stage">>)

\* handle_release up to the call of the composed pipeline
HandleRelease(parsed) ==
    /\ phase = "idle"
    /\ options' = Some(ParseReleaseOptions(parsed))
    /\ steps' = ReleaseSteps(ParseReleaseOptions(parsed))
    /\ idx' = 0
    /\ called' = <<>>
    /\ result' = Some("None")
    /\ raised' = None
    /\ phase' = "release"
    /\ UNCHANGED <<commands, call, ret, ctx, world, err, procs, out, files, runRet, code>>

\* ----------------------------------------------------------- release steps

NoFx == [procs |-> <<>>, out |-> <<>>, files |-> <<>>]

Fx(started, printed, written) == [procs |-> started, out |-> printed, files |-> written]

Exc(cls, msg) == Some([cls |-> cls, msg |-> msg])

Line(tag, text) == [tag |-> tag, text |-> text]

Cmd(command, cwd) == [command |-> command, cwd |-> cwd]

\* Consecutive ctx.run(...) calls with the default check=True; the command
\* number `fail` (0: none) exits non-zero if it is started at all.
RECURSIVE RunAllFrom(_, _, _, _)
RunAllFrom(c, cmds, fail, j) ==
    IF j > Len(cmds) THEN [started |-> <<>>, printed |-> <<>>, raised |-> ""]
    ELSE LET r == Run(c, cmds[j].command, TRUE, FALSE, cmds[j].cwd, FALSE,
                      [returncode |-> IF j = fail THEN 1 ELSE 0, stdout |-> <<>>])
         IN  IF r.raised # ""
             THEN [started |-> r.started, printed |-> r.printed, raised |-> r.raised]
             ELSE LET rest == RunAllFrom(c, cmds, fail, j + 1)
                  IN  [started |-> r.started \o rest.started,
                       printed |-> r.printed \o rest.printed,
                       raised |-> rest.raised]

\* Mutant: a command that exits non-zero is started a second time.
RunAllRetry(c, cmds, fail) ==
    LET r == RunAllFrom(c, cmds, fail, 1)
    IN  IF r.raised # ""
        THEN [started |-> r.started \o <<r.started[Len(r.started)]>>,
              printed |-> r.printed, raised |-> r.raised]
        ELSE r

RunAll(c, cmds, fail) == RunAllFrom(c, cmds, fail, 1)

\* Mutant: the handler catches the error silently and reports success.
HandleReleaseExceptReturnsZero(exc) == [printed |-> <<>>, code |-> Some(0)]

\* Mutant: the handler catches every exception and reports status 1.
HandleReleaseExceptCatchesAll(exc) ==
    [printed |-> <<Line("Error:", exc.msg)>>, code |-> Some(1)]

\* handle_release: `except RuntimeError as err: print(f"Error: {err}"); return 1`;
\* any other exception leaves the handler.
HandleReleaseExcept(exc) ==
    IF exc.cls = "RuntimeError"
    THEN [printed |-> <<Line("Error:", exc.msg)>>, code |-> Some(1)]
    ELSE [printed |-> <<>>, code |-> None]

\* ctx.env.get("ARTAGON_SKIP_RELEASE_STEPS") == "1"
SkipReleaseSteps(c) == EnvGet(c.env, SKIP_RELEASE_STEPS) = Some("1")

\* The runner is about to call the step `name` of a release pipeline.
RunnerAt(name) == phase = "release" /\ RunnerNext(steps, idx) = Some(name)

\* The runner's call of step `name` ends: the step had the effects fx and
\* returned None (exc = None) or raised exc, which the handler then sees.
StepDone(name, fx, exc) ==
    /\ called' = Append(called, name)
    /\ procs' = procs \o fx.procs
    /\ files' = files \o fx.files
    /\ IF exc = None
       THEN /\ idx' = idx + 1
            /\ result' = Some("None")
            /\ out' = out \o fx.out
            /\ UNCHANGED <<raised, code, phase>>
       ELSE /\ raised' = exc
            /\ idx' = RunnerOnRaise(idx).idx
            /\ UNCHANGED result
            /\ IF RunnerOnRaise(idx).over
               THEN /\ out' = out \o fx.out \o HandleReleaseExcept(exc[1]).printed
                    /\ code' = HandleReleaseExcept(exc[1]).code
                    /\ phase' = "done"
               ELSE /\ out' = out \o fx.out
                    /\ UNCHANGED <<code, phase>>
    /\ UNCHANGED <<commands, call, ret, ctx, world, invoked, err, runRet, steps>>

\* A step made only of consecutive ctx.run calls.
RunStep(name, cmds) ==
    \E fail \in 0..Len(cmds) :
        LET r == RunAll(ctx, cmds, fail)
        IN  StepDone(name, Fx(r.started, r.printed, <<>>),
                     IF r.raised # "" THEN Exc(r.raised, "") ELSE None)

\* A step that only prints.
PrintStep(name, lines) == StepDone(name, Fx(<<>>, lines, <<>>), None)

EnsureRepositoryClean ==
    /\ RunnerAt("ensure_repository_clean")
    /\ UNCHANGED options
    /\ IF EnvGet(ctx.env, SKIP_GIT_CLEAN) = Some("1")
       THEN StepDone("ensure_repository_clean", NoFx, None)
       ELSE \E rc \in {0, 1} :
              LET r == Run(ctx, <<"git", "status", "--porcelain">>, TRUE, TRUE, None,
                           TRUE, [returncode |-> rc, stdout |-> world.status])
                  fx == Fx(r.started, r.printed, <<>>)
              IN  IF r.raised # ""
                  THEN StepDone("ensure_repository_clean", fx, Exc(r.raised, ""))
                  ELSE IF Strip(r.stdout[1]) # <<>>
                  THEN StepDone("ensure_repository_clean", fx,
                                Exc("RuntimeError", "Working tree is not clean."))
                  ELSE StepDone("ensure_repository_clean", fx, None)

\* Mutant: the branch check also rewrites the action of the options.
CheckReleaseBranchRewritesAction(o, branch) ==
    [options |-> [o EXCEPT !.branch = Some(branch), !.action = "TAG"], exc |-> None]

\* Mutant: on a release branch the version is always taken from the branch.
CheckReleaseBranchOverwritesVersion(o, branch) ==
    IF o.action \in {"RUN", "TAG", "BRANCH_STAGE"} /\ StartsWith(branch, ReleasePrefix)
    THEN [options |-> [o EXCEPT !.branch = Some(branch),
                                !.version = Some(RemovePrefix(branch, ReleasePrefix))],
          exc |-> None]
    ELSE [options |-> [o EXCEPT !.branch = Some(branch)],
          exc |-> IF o.action # "BRANCH_CUT" /\ ~o.allow_mismatch
                  THEN Exc("RuntimeError",
                           "Release commands must run from a release-* branch.")
                  ELSE None]

\* Mutant: a version that differs from the branch's is let through.
CheckReleaseBranchAcceptsMismatch(o, branch) ==
    LET o1 == [o EXCEPT !.branch = Some(branch)]
    IN  IF o.action \in {"RUN", "TAG", "BRANCH_STAGE"}
        THEN IF ~StartsWith(branch, ReleasePrefix)
             THEN [options |-> o1,
                   exc |-> IF ~o.allow_mismatch
                           THEN Exc("RuntimeError",
                                    "Release commands must run from a release-* branch.")
                           ELSE None]
             ELSE [options |-> IF o.version = None
                               THEN [o1 EXCEPT !.version =
                                        Some(RemovePrefix(branch, ReleasePrefix))]
                               ELSE o1,
                   exc |-> None]
        ELSE [options |-> o1, exc |-> None]

\* ensure_release_branch after the branch name is known: the options it
\* leaves and the error it raises, if any.
CheckReleaseBranch(o, branch) ==
    LET o1 == [o EXCEPT !.branch = Some(branch)]
    IN  IF o.action \in {"RUN", "TAG", "BRANCH_STAGE"}
        THEN IF ~StartsWith(branch, ReleasePrefix)
             THEN [options |-> o1,
                   exc |-> IF ~o.allow_mismatch
                           THEN Exc("RuntimeError",
                                    "Release commands must run from a release-* branch.")
                           ELSE None]
             ELSE LET branch_version == RemovePrefix(branch, ReleasePrefix)
                  IN  IF o.version = None
                      THEN [options |-> [o1 EXCEPT !.version = Some(branch_version)],
                            exc |-> None]
                      ELSE [options |-> o1,
                            exc |-> IF o.version[1] # branch_version /\ ~o.allow_mismatch
                                    THEN Exc("RuntimeError",
                                             "Branch does not match version.")
                                    ELSE None]
        ELSE [options |-> o1, exc |-> None]

EnsureReleaseBranch ==
    /\ RunnerAt("ensure_release_branch")
    /\ \E rc \in {0, 1} :
          LET r == Run(ctx, <<"git", "symbolic-ref", "--short", "HEAD">>, TRUE, TRUE,
                       None, TRUE, [returncode |-> rc, stdout |-> world.branch])
              fx == Fx(r.started, r.printed, <<>>)
          IN  IF r.raised # ""
              THEN /\ StepDone("ensure_release_branch", fx, Exc(r.raised, ""))
                   /\ UNCHANGED options
              ELSE IF Strip(r.stdout[1]) = <<>>
              THEN /\ StepDone("ensure_release_branch", fx,
                               Exc("RuntimeError", "Unable to determine current branch."))
                   /\ UNCHANGED options
              ELSE LET c == CheckReleaseBranch(options[1], Strip(r.stdout[1]))
                   IN  /\ StepDone("ensure_release_branch", fx, c.exc)
                       /\ options' = Some(c.options)

LogReleasePlan ==
    /\ RunnerAt("log_release_plan")
    /\ UNCHANGED options
    /\ PrintStep("log_release_plan",
                 <<Line("[PLAN]", [action |-> options[1].action,
                                   version |-> options[1].version,
                                   deploy |-> options[1].deploy])>>)

ValidateBuild ==
    /\ RunnerAt("validate_build")
    /\ UNCHANGED options
    /\ IF SkipReleaseSteps(ctx)
       THEN PrintStep("validate_build", <<Line("[skip]", "validate build")>>)
       ELSE RunStep("validate_build", <<Cmd(<<"mvn", "clean", "verify">>, None)>>)

\* mvn versions:set / versions:commit in artagon-bom, then in artagon-parent
SetVersionCommands(version) ==
    << Cmd(<<"mvn", "versions:set", <<"-DnewVersion=", version>> >>, Some("artagon-bom")),
       Cmd(<<"mvn", "versions:commit">>, Some("artagon-bom")),
       Cmd(<<"mvn", "versions:set", <<"-DnewVersion=", version>> >>, Some("artagon-parent")),
       Cmd(<<"mvn", "versions:commit">>, Some("artagon-parent")) >>

\* The four version commands, then read_text / write_text of the parent pom;
\* reading or writing the file may fail with OSError.
SetVersionsAndRewritePom(name, version) ==
    \E fail \in 0..4, io \in {"ok", "OSError"} :
        LET r == RunAll(ctx, SetVersionCommands(version), fail)
        IN  IF r.raised # ""
            THEN StepDone(name, Fx(r.started, r.printed, <<>>), Exc(r.raised, ""))
            ELSE IF io = "OSError"
            THEN StepDone(name, Fx(r.started, r.printed, <<>>), Exc("OSError", ""))
            ELSE StepDone(name,
                          Fx(r.started, r.printed,
                             << [op |-> "write_text",
                                 path |-> "artagon-parent/pom.xml",
                                 version |-> version] >>),
                          None)

UpdateVersionsToRelease ==
    /\ RunnerAt("update_versions_to_release")
    /\ UNCHANGED options
    /\ IF Falsy(options[1].version)
       THEN StepDone("update_versions_to_release", NoFx,
                     Exc("RuntimeError", "Release version is not set."))
       ELSE IF SkipReleaseSteps(ctx)
       THEN PrintStep("update_versions_to_release",
                      <<Line("[skip]", "update versions to release")>>)
       ELSE SetVersionsAndRewritePom("update_versions_to_release", options[1].version[1])

UpdateChecksums ==
    /\ RunnerAt("update_checksums")
    /\ UNCHANGED options
    /\ IF SkipReleaseSteps(ctx)
       THEN PrintStep("update_checksums", <<Line("[skip]", "update checksums")>>)
       ELSE \E fail \in 0..1, io \in {"ok", "OSError"} :
              LET r == RunAll(ctx, <<Cmd(<<"mvn", "clean", "verify">>,
                                         Some("artagon-bom"))>>, fail)
                  mkdir == [op |-> "mkdir", path |-> "artagon-parent/security",
                            version |-> <<>>]
                  copy == [op |-> "copy2",
                           path |-> "artagon-parent/security/bom-checksums.csv",
                           version |-> <<>>]
              IN  IF r.raised # ""
                  THEN StepDone("update_checksums", Fx(r.started, r.printed, <<>>),
                                Exc(r.raised, ""))
                  ELSE IF io = "OSError"
                  THEN StepDone("update_checksums", Fx(r.started, r.printed, <<mkdir>>),
                                Exc("OSError", ""))
                  ELSE StepDone("update_checksums",
                                Fx(r.started, r.printed, <<mkdir, copy>>), None)

CommitRelease ==
    /\ RunnerAt("commit_release")
    /\ UNCHANGED options
    /\ IF Falsy(options[1].version)
       THEN StepDone("commit_release", NoFx,
                     Exc("RuntimeError", "Release version is not set"))
       ELSE IF SkipReleaseSteps(ctx)
       THEN PrintStep("commit_release", <<Line("[skip]", "commit release")>>)
       ELSE RunStep("commit_release",
                    << Cmd(<<"git", "add", ".">>, None),
                       Cmd(<<"git", "commit", "-m",
                             <<"Release version ", options[1].version[1]>> >>, None),
                       Cmd(<<"git", "tag", "-a", <<"v", options[1].version[1]>>, "-m",
                             <<"Release ", options[1].version[1]>> >>, None) >>)

DeployRelease ==
    /\ RunnerAt("deploy_release")
    /\ UNCHANGED options
    /\ IF SkipReleaseSteps(ctx)
       THEN PrintStep("deploy_release", <<Line("[skip]", "deploy release")>>)
       ELSE RunStep("deploy_release",
                    <<Cmd(<<"mvn", "clean", "deploy",
                            "-Possrh-deploy,artagon-oss-release">>, None)>>)

BumpToNextSnapshot ==
    /\ RunnerAt("bump_to_next_snapshot")
    /\ IF Falsy(options[1].version)
       THEN /\ StepDone("bump_to_next_snapshot", NoFx,
                        Exc("RuntimeError", "Release version is not set"))
            /\ UNCHANGED options
       ELSE LET next == calculate_next_snapshot(options[1].version[1])
            IN  IF next = None
                THEN /\ StepDone("bump_to_next_snapshot", NoFx,
                                 Exc("ValueError", "Unable to increment version component"))
                     /\ UNCHANGED options
                ELSE /\ options' = Some([options[1] EXCEPT !.next_version = next])
                     /\ IF SkipReleaseSteps(ctx)
                        THEN PrintStep("bump_to_next_snapshot",
                                       <<Line("[skip]", "bump to next snapshot")>>)
                        ELSE SetVersionsAndRewritePom("bump_to_next_snapshot", next[1])

CommitNextIteration ==
    /\ RunnerAt("commit_next_iteration")
    /\ UNCHANGED options
    /\ IF SkipReleaseSteps(ctx)
       THEN PrintStep("commit_next_iteration", <<Line("[skip]", "commit next iteration")>>)
       ELSE RunStep("commit_next_iteration",
                    << Cmd(<<"git", "add", ".">>, None),
                       Cmd(<<"git", "commit", "-m",
                             "Prepare for next development iteration">>, None) >>)

SummarizeRelease ==
    /\ RunnerAt("summarize_release")
    /\ UNCHANGED options
    /\ PrintStep("summarize_release",
                 <<Line("Release complete!",
                        [version |-> options[1].version,
                         branch |-> options[1].branch,
                         next_version |-> options[1].next_version])>>)

CreateReleaseTag ==
    /\ RunnerAt("create_release_tag")
    /\ UNCHANGED options
    /\ IF Falsy(options[1].version)
       THEN StepDone("create_release_tag", NoFx,
                     Exc("RuntimeError", "Version is required for tagging."))
       ELSE RunStep("create_release_tag",
                    << Cmd(<<"git", "tag", "-a", <<"v", options[1].version[1]>>, "-m",
                             <<"Release ", options[1].version[1]>> >>, None),
                       Cmd(<<"git", "push", "origin",
                             <<"v", options[1].version[1]>> >>, None) >>)

CreateReleaseBranch ==
    /\ RunnerAt("create_release_branch")
    /\ IF Falsy(options[1].version)
       THEN /\ StepDone("create_release_branch", NoFx,
                        Exc("RuntimeError", "Version required to cut release branch."))
            /\ UNCHANGED options
       ELSE LET branch_name == ReleasePrefix \o options[1].version[1]
            IN  \E fail \in 0..3 :
                  LET r == RunAll(ctx,
                                  << Cmd(<<"git", "fetch", "origin", "main">>, None),
                                     Cmd(<<"git", "checkout", "-b", branch_name,
                                           "origin/main">>, None),
                                     Cmd(<<"git", "push", "--set-upstream", "origin",
                                           branch_name>>, None) >>, fail)
                  IN  IF r.raised # ""
                      THEN /\ StepDone("create_release_branch",
                                       Fx(r.started, r.printed, <<>>), Exc(r.raised, ""))
                           /\ UNCHANGED options
                      ELSE /\ StepDone("create_release_branch",
                                       Fx(r.started, r.printed, <<>>), None)
                           /\ options' = Some([options[1] EXCEPT
                                                   !.branch = Some(branch_name)])

SummarizeStage ==
    /\ RunnerAt("summarize_stage")
    /\ UNCHANGED options
    /\ PrintStep("summarize_stage",
                 <<Line("Stage validation completed",
                        [branch |-> options[1].branch, deploy |-> options[1].deploy])>>)

\* handle_release: the composed pipeline returned; `return 0`
HandleReleaseReturn ==
    /\ phase = "release"
    /\ RunnerNext(steps, idx) = None
    /\ code' = Some(0)
    /\ phase' = "done"
    /\ UNCHANGED <<commands, call, ret, ctx, world, invoked, err, procs, out, files, runRet,
                   options, steps, idx, called, result, raised>>

\* ----------------------------------------------------------- other handlers

\* A handler that is one ctx.run call (default check=True) and `return 0`; a
\* CalledProcessError leaves the handler.
RunAndReturn(command) ==
    \E fail \in 0..1 :
        LET r == RunAll(ctx, <<Cmd(command, None)>>, fail)
        IN  /\ phase = "idle"
            /\ procs' = procs \o r.started
            /\ out' = out \o r.printed
            /\ IF r.raised # ""
               THEN raised' = Exc(r.raised, "") /\ UNCHANGED code
               ELSE code' = Some(0) /\ UNCHANGED raised
            /\ phase' = "done"
            /\ UNCHANGED <<commands, call, ret, ctx, world, err, files, runRet, options,
                           steps, idx, called, result>>

\* handle_snapshot with the parsed command "publish"
HandleSnapshot ==
    RunAndReturn(<<"mvn", "clean", "deploy", "-Possrh-deploy,artagon-oss-release">>)

\* handle_security with the parsed command "update" or "verify"
HandleSecurity(command) ==
    RunAndReturn(<<"bash", <<ctx.cwd, "scripts/security/mvn_update_security.sh">>,
                   IF command = "update" THEN "--update" ELSE "--verify">>)

\* Python truthiness of an Optional configuration text
FalsyText(opt) == opt = None \/ opt[1] = ""

\* pathlib's Path.name: the last component of a directory's path; "root" is
\* the resolved repository root, a directory named "checkout".
PathName(path) == IF path = "root" THEN "checkout" ELSE path

\* Mutant: without a configured repo the root directory's path is used.
GithubCommandRepoIsPath(c, branch) ==
    LET repo == IF FalsyText(c.config.repo) THEN c.cwd ELSE c.config.repo[1]
        owner == c.config.owner
    IN  <<"bash", <<c.cwd, "scripts/ci/gh_protect_main_team.sh">>,
          "--repo", repo, "--branch", branch, "--force">>
        \o (IF FalsyText(owner) THEN <<>> ELSE <<"--owner", owner[1]>>)

\* handle_github: repo = ctx.config.repo or ctx.cwd.name; the command list,
\* extended with --owner `if owner:`
GithubCommand(c, branch) ==
    LET repo == IF FalsyText(c.config.repo) THEN PathName(c.cwd) ELSE c.config.repo[1]
        owner == c.config.owner
    IN  <<"bash", <<c.cwd, "scripts/ci/gh_protect_main_team.sh">>,
          "--repo", repo, "--branch", branch, "--force">>
        \o (IF FalsyText(owner) THEN <<>> ELSE <<"--owner", owner[1]>>)

\* handle_github with the parsed command "protect" and the parsed --branch
HandleGithub(branch) == RunAndReturn(GithubCommand(ctx, branch))

\* -------------------------------------------------------- argument parsing

\* The characters of an argument that is used as a version; any other word is
\* kept as one symbol.
Chars(token) ==
    CASE token = "" -> <<>>
      [] token = "1.2" -> <<"1", ".", "2">>
      [] token = "2.x" -> <<"2", ".", "x">>
      [] OTHER -> <<token>>

\* The arguments that start with "-": argparse reads them as option strings.
OptionStrings ==
    {"--version", "--allow-branch-mismatch", "--deploy", "--branch", "--bogus"}

IsOption(token) == token \in OptionStrings

\* The namespace before any argument is read (store_true flags default False).
EmptyNamespace ==
    [command |-> "", branch_cmd |-> "", version |-> None,
     allow_branch_mismatch |-> FALSE, deploy |-> FALSE]

\* run_parser: --version VALUE, --allow-branch-mismatch
RunParser == [flags |-> {"--allow-branch-mismatch"}, valued |-> {"--version"},
              positional |-> FALSE]

\* tag_parser and cut_parser: the positional `version`
VersionParser == [flags |-> {}, valued |-> {}, positional |-> TRUE]

\* stage_parser: --deploy, --allow-branch-mismatch
StageParser == [flags |-> {"--deploy", "--allow-branch-mismatch"}, valued |-> {},
                positional |-> FALSE]

\* Mutant: arguments the sub-parser does not know are skipped.
RECURSIVE SubParseLenient(_, _, _)
SubParseLenient(parser, rest, ns) ==
    IF rest = <<>> THEN Some(ns)
    ELSE IF rest[1] = "--allow-branch-mismatch" /\ rest[1] \in parser.flags
    THEN SubParseLenient(parser, Tail(rest), [ns EXCEPT !.allow_branch_mismatch = TRUE])
    ELSE IF rest[1] = "--deploy" /\ rest[1] \in parser.flags
    THEN SubParseLenient(parser, Tail(rest), [ns EXCEPT !.deploy = TRUE])
    ELSE IF parser.positional /\ ~IsOption(rest[1]) /\ ns.version = None
    THEN SubParseLenient(parser, Tail(rest), [ns EXCEPT !.version = Some(Chars(rest[1]))])
    ELSE SubParseLenient(parser, Tail(rest), ns)

\* parse_args of one sub-parser: the namespace, or None when argparse reports
\* a usage error (unknown option, option without its value, unexpected or
\* missing positional argument) and exits with status 2.
RECURSIVE SubParse(_, _, _)
SubParse(parser, rest, ns) ==
    IF rest = <<>>
    THEN IF parser.positional /\ ns.version = None THEN None ELSE Some(ns)
    ELSE IF rest[1] = "--allow-branch-mismatch" /\ rest[1] \in parser.flags
    THEN SubParse(parser, Tail(rest), [ns EXCEPT !.allow_branch_mismatch = TRUE])
    ELSE IF rest[1] = "--deploy" /\ rest[1] \in parser.flags
    THEN SubParse(parser, Tail(rest), [ns EXCEPT !.deploy = TRUE])
    ELSE IF rest[1] = "--version" /\ rest[1] \in parser.valued
    THEN IF Len(rest) < 2 \/ IsOption(rest[2]) THEN None
         ELSE SubParse(parser, SubSeq(rest, 3, Len(rest)),
                       [ns EXCEPT !.version = Some(Chars(rest[2]))])
    ELSE IF IsOption(rest[1]) THEN None
    ELSE IF parser.positional /\ ns.version = None
    THEN SubParse(parser, Tail(rest), [ns EXCEPT !.version = Some(Chars(rest[1]))])
    ELSE None

\* _parse_release_args up to parser.parse_args(list(args)): the sub-command is
\* required, `branch` requires cut or stage.
ParseReleaseArgs(a) ==
    IF a = <<>> THEN None
    ELSE IF a[1] = "run"
    THEN SubParse(RunParser, Tail(a), [EmptyNamespace EXCEPT !.command = "run"])
    ELSE IF a[1] = "tag"
    THEN SubParse(VersionParser, Tail(a), [EmptyNamespace EXCEPT !.command = "tag"])
    ELSE IF a[1] = "branch"
    THEN IF Len(a) < 2 THEN None
         ELSE IF a[2] = "cut"
         THEN SubParse(VersionParser, SubSeq(a, 3, Len(a)),
                       [EmptyNamespace EXCEPT !.command = "branch", !.branch_cmd = "cut"])
         ELSE IF a[2] = "stage"
         THEN SubParse(StageParser, SubSeq(a, 3, Len(a)),
                       [EmptyNamespace EXCEPT !.command = "branch", !.branch_cmd = "stage"])
         ELSE None
    ELSE None

\* _parse_snapshot_args: one positional `command` with choices ["publish"]
ParseSnapshotArgs(a) ==
    IF Len(a) = 1 /\ a[1] \in {"publish"} THEN Some([command |-> a[1]]) ELSE None

\* _parse_security_args: a required sub-command, update or verify
ParseSecurityArgs(a) ==
    IF Len(a) = 1 /\ a[1] \in {"update", "verify"} THEN Some([command |-> a[1]]) ELSE None

\* _parse_gh_args: positional `command` with choices ["protect"], --branch VALUE
\* (default "main")
RECURSIVE ParseGhFrom(_, _)
ParseGhFrom(rest, ns) ==
    IF rest = <<>> THEN IF ns.command = "" THEN None ELSE Some(ns)
    ELSE IF rest[1] = "--branch"
    THEN IF Len(rest) < 2 \/ IsOption(rest[2]) THEN None
         ELSE ParseGhFrom(SubSeq(rest, 3, Len(rest)), [ns EXCEPT !.branch = rest[2]])
    ELSE IF IsOption(rest[1]) THEN None
    ELSE IF ns.command = "" /\ rest[1] \in {"protect"}
    THEN ParseGhFrom(Tail(rest), [ns EXCEPT !.command = rest[1]])
    ELSE None

ParseGhArgs(a) == ParseGhFrom(a, [command |-> "", branch |-> "main"])

\* parser.error: the usage message on standard error, then SystemExit(2); it
\* happens in the handler's first statement, before anything else.
UsageError(prog) ==
    /\ phase = "idle"
    /\ err' = Append(err, Line("usage:", prog))
    /\ raised' = Exc("SystemExit", "2")
    /\ phase' = "done"
    /\ UNCHANGED <<commands, call, ret, ctx, world, procs, out, files, runRet,
                   options, steps, idx, called, result, code>>

\* ---------------------------------------------------- direct calls of run

InitRun ==
    \E c \in Contexts : c.config = DefaultConfig /\ InitWith(c, DefaultWorld)

CtxRunAny ==
    \E command \in RunCommands, check \in BOOLEAN, capture_output \in BOOLEAN,
       cwd \in {None, Some("artagon-bom")}, read_only \in BOOLEAN,
       proc \in ProcessOutcomes :
        CtxRun(command, check, capture_output, cwd, read_only, proc)

NextRun == CtxRunAny

SpecRun == InitRun /\ [][NextRun]_vars

\* A run call has just returned or raised.
RunCalled == runRet' # runRet

\* C3: under dry-run a run call not marked read-only starts no external
\* process, prints an echo of the command, and returns a successful result with
\* exit code 0 and empty output.
C3_DryRunSuppresses ==
    [][(RunCalled /\ ctx.dry_run /\ ~runRet'[1].read_only)
        => /\ procs' = procs
           /\ out' = Append(out, [tag |-> "[dry-run]", text |-> runRet'[1].command])
           /\ runRet'[1].returncode = 0
           /\ runRet'[1].stdout = Some(<<>>)
           /\ runRet'[1].raised = ""]_vars

\* C3 witness: under dry-run, calls not marked read-only were made with check
\* requested, nothing was started and the echoes were printed.
C3_Witness ==
    /\ ctx.dry_run
    /\ runRet # None
    /\ runRet[1].n = 2
    /\ ~runRet[1].read_only
    /\ runRet[1].check
    /\ procs = <<>>
    /\ Len(out) = 2

\* C5: a run call starts the external process exactly when dry-run is inactive
\* or the call is marked read-only.
C5_ExecutesIffRealOrReadOnly ==
    [][RunCalled
        => LET r == runRet'[1]
           IN  IF ~ctx.dry_run \/ r.read_only
               THEN /\ Len(procs') = Len(procs) + 1
                    /\ SubSeq(procs', 1, Len(procs)) = procs
                    /\ procs'[Len(procs')].argv = r.command
                    /\ out' = out
               ELSE procs' = procs]_vars

\* C5 witness: under dry-run a read-only call was executed for real, and a
\* call not marked read-only was not.
C5_Witness ==
    /\ ctx.dry_run
    /\ runRet # None
    /\ runRet[1].read_only
    /\ Len(procs) = 1
    /\ Len(out) = 1

\* ---------------------------------------------------------------- handlers

InitHandlers == \E c \in Contexts, w \in Worlds : InitWith(c, w)

\* The argument lists handed to handle_release: every well-formed shape, and
\* malformed ones.
ReleaseArgLists ==
    { <<"run">> \o v \o m :
        v \in { <<>>, <<"--version", "">>, <<"--version", "1.2">>, <<"--version", "2.x">> },
        m \in { <<>>, <<"--allow-branch-mismatch">> } }
    \cup { <<"tag", v>> : v \in {"", "1.2", "2.x"} }
    \cup { <<"branch", "cut", v>> : v \in {"", "1.2", "2.x"} }
    \cup { <<"branch", "stage">> \o d \o m :
             d \in { <<>>, <<"--deploy">> }, m \in { <<>>, <<"--allow-branch-mismatch">> } }
    \cup { <<>>, <<"bogus">>, <<"--bogus", "run">>,
           <<"run", "--bogus">>, <<"run", "--version">>, <<"run", "1.2">>,
           <<"run", "--deploy">>,
           <<"tag">>, <<"tag", "--bogus">>, <<"tag", "1.2", "2.x">>,
           <<"branch">>, <<"branch", "bogus">>, <<"branch", "cut">>,
           <<"branch", "cut", "1.2", "--deploy">>,
           <<"branch", "stage", "--bogus">>, <<"branch", "stage", "--version", "1.2">> }

SnapshotArgLists == { <<"publish">>, <<>>, <<"bogus">>, <<"publish", "--bogus">> }

SecurityArgLists ==
    { <<"update">>, <<"verify">>, <<>>, <<"bogus">>, <<"update", "--bogus">> }

GhArgLists ==
    { <<"protect">>, <<"protect", "--branch", "main">>,
      <<"protect", "--branch", "develop">>, <<"--branch", "develop", "protect">>,
      <<>>, <<"bogus">>, <<"protect", "--branch">>, <<"protect", "--bogus">>,
      <<"--branch", "main">> }

\* handle_release(ctx, args): options = _parse_release_args(args), then the rest
HandleReleaseArgs(a) ==
    /\ invoked' = [handler |-> "handle_release", args |-> a]
    /\ IF ParseReleaseArgs(a) = None
       THEN UsageError("artagon java release")
       ELSE HandleRelease(ParseReleaseArgs(a)[1])

\* handle_snapshot(ctx, args)
HandleSnapshotArgs(a) ==
    /\ invoked' = [handler |-> "handle_snapshot", args |-> a]
    /\ IF ParseSnapshotArgs(a) = None
       THEN UsageError("artagon java snapshot")
       ELSE HandleSnapshot

\* handle_security(ctx, args)
HandleSecurityArgs(a) ==
    /\ invoked' = [handler |-> "handle_security", args |-> a]
    /\ IF ParseSecurityArgs(a) = None
       THEN UsageError("artagon java security")
       ELSE HandleSecurity(ParseSecurityArgs(a)[1].command)

\* handle_github(ctx, args)
HandleGithubArgs(a) ==
    /\ invoked' = [handler |-> "handle_github", args |-> a]
    /\ IF ParseGhArgs(a) = None
       THEN UsageError("artagon java gh")
       ELSE HandleGithub(ParseGhArgs(a)[1].branch)

HandleReleaseAny == \E a \in ReleaseArgLists : HandleReleaseArgs(a)

HandleSnapshotAny == \E a \in SnapshotArgLists : HandleSnapshotArgs(a)

HandleSecurityAny == \E a \in SecurityArgLists : HandleSecurityArgs(a)

HandleGithubAny == \E a \in GhArgLists : HandleGithubArgs(a)

NextHandlers ==
    \/ HandleReleaseAny
    \/ EnsureRepositoryClean
    \/ EnsureReleaseBranch
    \/ LogReleasePlan
    \/ ValidateBuild
    \/ UpdateVersionsToRelease
    \/ UpdateChecksums
    \/ CommitRelease
    \/ DeployRelease
    \/ BumpToNextSnapshot
    \/ CommitNextIteration
    \/ SummarizeRelease
    \/ CreateReleaseTag
    \/ CreateReleaseBranch
    \/ SummarizeStage
    \/ HandleReleaseReturn
    \/ HandleSnapshotAny
    \/ HandleSecurityAny
    \/ HandleGithubAny

SpecHandlers == InitHandlers /\ [][NextHandlers]_vars

\* The step order of the release `run` action.
RunOrder ==
    <<"ensure_repository_clean", "ensure_release_branch", "log_release_plan",
      "validate_build", "update_versions_to_release", "update_checksums",
      "commit_release", "deploy_release", "bump_to_next_snapshot",
      "commit_next_iteration", "summarize_release">>

IsRunAction == options # None /\ options[1].action = "RUN"

IsCommand(p, a, b) == p.argv[1] = a /\ p.argv[2] = b

\* Process i of the log is preceded by a successful command a b.
After(i, a, b) ==
    \E j \in 1..(i - 1) : IsCommand(procs[j], a, b) /\ procs[j].returncode = 0

\* C2: for release run the steps are called in the order clean check, branch
\* inference, plan, build, versions, checksums, release commit (commit then
\* tag), deploy, snapshot bump, next-iteration commit, summary; a step is
\* called only after the previous one returned; after a failure no later step
\* is called and nothing done before is undone.
C2_RunOrderHaltOnFailure ==
    /\ [](IsRunAction =>
            /\ steps = RunOrder
            /\ IsPrefix(called, RunOrder)
            /\ (raised = None => Len(called) = idx)
            /\ (raised # None => Len(called) = idx + 1 /\ phase = "done")
            /\ \A i \in 1..Len(procs) :
                  /\ IsCommand(procs[i], "git", "tag") => After(i, "git", "commit")
                  /\ (IsCommand(procs[i], "mvn", "clean") /\ procs[i].argv[3] = "deploy")
                        => After(i, "git", "tag")
                  /\ IsCommand(procs[i], "git", "commit")
                        => After(i, "mvn", "versions:commit"))
    /\ [][IsRunAction =>
            /\ IsPrefix(called, called')
            /\ Len(called') <= Len(called) + 1
            /\ IsPrefix(procs, procs')
            /\ IsPrefix(files, files')
            /\ IsPrefix(out, out')
            /\ (raised # None => called' = called /\ procs' = procs /\ files' = files)
         ]_vars

\* C2 witness: a release run whose tag command failed: the seven first steps
\* were called, the commit stays in the log before the failed tag, the pom
\* written earlier is still written, and the run is over.
C2_Witness ==
    /\ IsRunAction
    /\ phase = "done"
    /\ called = SubSeq(RunOrder, 1, 7)
    /\ raised # None
    /\ raised[1].cls = "CalledProcessError"
    /\ Len(procs) > 2
    /\ IsCommand(procs[Len(procs)], "git", "tag")
    /\ IsCommand(procs[Len(procs) - 1], "git", "commit")
    /\ files # <<>>

\* C4: under dry-run no handler starts an external process that is not
\* read-only, and none changes a file of the repository.
C4_DryRunNoSideEffects ==
    ctx.dry_run =>
        /\ files = <<>>
        /\ \A i \in 1..Len(procs) : procs[i].read_only

PreconditionMessages ==
    { "Working tree is not clean.",
      "Unable to determine current branch.",
      "Release commands must run from a release-* branch.",
      "Branch does not match version.",
      "Release version is not set.",
      "Release version is not set",
      "Version is required for tagging.",
      "Version required to cut release branch." }

\* C10: a precondition failure raised in a release step is caught by
\* handle_release, printed as "Error: <message>" and gives exit status 1;
\* handle_release returns 0 exactly when every step of its pipeline completed.
C10_PreconditionExitOne ==
    (options # None /\ phase = "done") =>
        /\ (raised # None /\ raised[1].msg \in PreconditionMessages)
              => /\ code = Some(1)
                 /\ out # <<>>
                 /\ out[Len(out)].tag = "Error:"
                 /\ out[Len(out)].text = raised[1].msg
        /\ code = Some(0) <=> (raised = None /\ idx = Len(steps) /\ called = steps)
        /\ (/\ called = <<"ensure_repository_clean">>
            /\ procs # <<>>
            /\ procs[Len(procs)].returncode = 0
            /\ Strip(world.status) # <<>>)
              => code = Some(1) /\ raised[1].msg = "Working tree is not clean."
        /\ (/\ called # <<>>
            /\ called[Len(called)] = "ensure_release_branch"
            /\ procs[Len(procs)].returncode = 0
            /\ options[1].action \in {"RUN", "TAG", "BRANCH_STAGE"}
            /\ ~options[1].allow_mismatch
            /\ ~StartsWith(Strip(world.branch), ReleasePrefix))
              => code = Some(1)
        /\ (/\ called # <<>>
            /\ called[Len(called)] \in {"create_release_tag", "create_release_branch"}
            /\ Falsy(options[1].version))
              => code = Some(1)

\* C10 witness: a release run on a release branch whose version differs from
\* the given one ended with status 1 and the printed error.
C10_Witness ==
    /\ options # None
    /\ phase = "done"
    /\ code = Some(1)
    /\ raised[1].msg = "Branch does not match version."
    /\ out[Len(out)] = Line("Error:", "Branch does not match version.")
    /\ procs # <<>>

\* ------------------------------------------------- failures of external commands

\* C11: an external command run for real with check requested that exits
\* non-zero raises CalledProcessError carrying the exit code; in a handler the
\* error is not caught and not turned into status 1: the failed command is the
\* last one started, no later step is called, and the error leaves the handler.
C11_CheckFailurePropagates ==
    /\ [](/\ \A i \in 1..Len(procs) :
                procs[i].returncode # 0
                    => /\ i = Len(procs)
                       /\ phase = "done"
                       /\ raised = Exc("CalledProcessError", "")
                       /\ code = None
                       /\ (out # <<>> => out[Len(out)].tag # "Error:")
           /\ \A command \in RunCommands, capture_output \in BOOLEAN,
                 read_only \in BOOLEAN, proc \in ProcessOutcomes :
                LET r == Run(ctx, command, TRUE, capture_output, None, read_only, proc)
                IN  (r.started # <<>> /\ proc.returncode # 0)
                        => /\ r.raised = "CalledProcessError"
                           /\ r.returncode = proc.returncode)
    /\ [][(raised # None /\ raised[1].cls = "CalledProcessError")
            => /\ called' = called
               /\ procs' = procs
               /\ code' = code
               /\ raised' = raised]_vars

\* C11 witness: release tag whose `git tag` succeeded and whose `git push`
\* exited non-zero: the handler ended with the CalledProcessError and no status.
C11_Witness ==
    /\ options # None
    /\ options[1].action = "TAG"
    /\ phase = "done"
    /\ called # <<>>
    /\ called[Len(called)] = "create_release_tag"
    /\ Len(procs) > 1
    /\ IsCommand(procs[Len(procs)], "git", "push")
    /\ procs[Len(procs)].returncode = 1
    /\ IsCommand(procs[Len(procs) - 1], "git", "tag")
    /\ raised = Exc("CalledProcessError", "")
    /\ code = None

\* ------------------------------------------------------- malformed arguments

\* The options each release sub-command knows.
KnownReleaseFlags(a) ==
    IF a[1] = "run" THEN {"--version", "--allow-branch-mismatch"}
    ELSE IF a[1] = "branch" /\ a[2] = "stage" THEN {"--deploy", "--allow-branch-mismatch"}
    ELSE {}

\* Release arguments with an unknown or missing sub-command, a missing required
\* version, or an unknown flag.
MalformedReleaseArgs(a) ==
    IF a = <<>> THEN TRUE
    ELSE IF a[1] \notin {"run", "tag", "branch"} THEN TRUE
    ELSE IF a[1] = "branch" /\ Len(a) < 2 THEN TRUE
    ELSE IF a[1] = "branch" /\ a[2] \notin {"cut", "stage"} THEN TRUE
    ELSE \/ a[1] = "tag" /\ \A i \in 2..Len(a) : IsOption(a[i])
         \/ a[1] = "branch" /\ a[2] = "cut" /\ \A i \in 3..Len(a) : IsOption(a[i])
         \/ \E i \in 2..Len(a) : IsOption(a[i]) /\ a[i] \notin KnownReleaseFlags(a)

\* Arguments of a handler that takes one sub-command out of `choices` and the
\* options `flags`, with the sub-command missing or unknown or a flag unknown.
MalformedChoiceArgs(a, choices, flags) ==
    IF a = <<>> THEN TRUE
    ELSE \/ ~IsOption(a[1]) /\ a[1] \notin choices
         \/ \E i \in 1..Len(a) : IsOption(a[i]) /\ a[i] \notin flags

MalformedArgs(inv) ==
    CASE inv.handler = "handle_release" -> MalformedReleaseArgs(inv.args)
      [] inv.handler = "handle_snapshot" -> MalformedChoiceArgs(inv.args, {"publish"}, {})
      [] inv.handler = "handle_security" ->
            MalformedChoiceArgs(inv.args, {"update", "verify"}, {})
      [] inv.handler = "handle_github" ->
            MalformedChoiceArgs(inv.args, {"protect"}, {"--branch"})
      [] OTHER -> FALSE

\* C12: a handler entered with malformed sub-arguments (unknown or missing
\* sub-command, missing required version, unknown flag) ends with a usage error
\* and exit status 2 before any pipeline is built: no options, no step list, no
\* step called, run never called (no process started, no dry-run echo), no file
\* written.
C12_MalformedArgsFailFirst ==
    MalformedArgs(invoked) =>
        /\ phase = "done"
        /\ raised = Exc("SystemExit", "2")
        /\ code = None
        /\ err # <<>>
        /\ err[Len(err)].tag = "usage:"
        /\ options = None
        /\ steps = <<>>
        /\ called = <<>>
        /\ procs = <<>>
        /\ out = <<>>
        /\ files = <<>>

\* C12 witness: handle_release entered for real with `run --bogus` on a clean
\* release branch ended with the usage error and nothing run.
C12_Witness ==
    /\ invoked = [handler |-> "handle_release", args |-> <<"run", "--bogus">>]
    /\ ~ctx.dry_run
    /\ world.status = <<>>
    /\ StartsWith(world.branch, ReleasePrefix)
    /\ phase = "done"
    /\ raised = Exc("SystemExit", "2")
    /\ procs = <<>>
    /\ called = <<>>

\* ------------------------------------------------------- skip-release-steps

\* C13: with ARTAGON_SKIP_RELEASE_STEPS=1 in the context environment no release
\* action (run, tag, branch cut, branch stage) invokes a build, version-set,
\* commit, tag, push, branch-creation or deploy command (only the read-only
\* git queries are started) and none writes a file.
C13_SkipStubsAllSteps ==
    (invoked.handler = "handle_release" /\ SkipReleaseSteps(ctx)) =>
        /\ files = <<>>
        /\ \A i \in 1..Len(procs) : procs[i].read_only

\* --------------------------------------------------------------- no retries

\* Two started processes are the same command in the same directory.
SameCommand(p, q) ==
    /\ p.cwd = q.cwd
    /\ Len(p.argv) = Len(q.argv)
    /\ p.argv[1] = q.argv[1]
    /\ p.argv[2] = q.argv[2]

\* C14: in one handler invocation every pipeline step is started at most once
\* and every external command of a step is attempted at most once; the first
\* failing external call or precondition check ends the pipeline at once.
C14_NoRetries ==
    /\ [](/\ IsPrefix(called, steps)
          /\ \A i, j \in 1..Len(called) : called[i] = called[j] => i = j
          /\ \A i \in 1..Len(procs) : procs[i].returncode # 0 => i = Len(procs)
          /\ (raised # None => phase = "done" /\ Len(called) <= idx + 1))
    /\ [][/\ Len(called') <= Len(called) + 1
          /\ LET new == SubSeq(procs', Len(procs) + 1, Len(procs'))
             IN  \A i, j \in 1..Len(new) : SameCommand(new[i], new[j]) => i = j
          /\ (raised # None => called' = called /\ procs' = procs)]_vars

\* C14 witness: a release run whose `git commit` of the release exited
\* non-zero: the run is over, and that commit was attempted exactly once.
C14_Witness ==
    /\ IsRunAction
    /\ phase = "done"
    /\ raised = Exc("CalledProcessError", "")
    /\ called = SubSeq(RunOrder, 1, 7)
    /\ IsCommand(procs[Len(procs)], "git", "commit")
    /\ procs[Len(procs)].returncode = 1
    /\ Cardinality({ i \in 1..Len(procs) : IsCommand(procs[i], "git", "commit") }) = 1

\* ------------------------------------------------------------ configuration

\* dict.get(key): the value, None when the key is missing
Get(table, key) == IF key \in DOMAIN table THEN Some(table[key]) ELSE None

\* The [defaults] tables of the model: each of language, owner, repo missing
\* or one of two texts.
DefaultsTables ==
    UNION { { [k \in S |-> f[k]] :
                f \in [ {"language", "owner", "repo"} -> {"x", "y"} ] } :
            S \in SUBSET {"language", "owner", "repo"} }

\* The text a key of the [defaults] table holds.
TableText(key, v) ==
    CASE key = "language" -> IF v = "x" THEN "java" ELSE "go"
      [] key = "owner" -> IF v = "x" THEN "artagon" ELSE ""
      [] OTHER -> IF v = "x" THEN "artagon-common" ELSE ""

\* What CLIConfig.load can find at `path`: no path at all, no file, a file that
\* cannot be opened or read (OSError), a file that is not TOML, a document whose
\* `defaults` is not a table, a document without `defaults`, a document with a
\* [defaults] table.
RcFiles ==
    { [kind |-> k, defaults |-> << >>] :
        k \in {"nopath", "missing", "unreadable", "invalid", "nontable", "nodefaults"} }
    \cup { [kind |-> "table", defaults |-> t] : t \in DefaultsTables }

\* Mutant: a file that cannot be read gives the defaults.
LoadDefaultsOnOSError(file) ==
    IF file.kind \in {"nopath", "missing", "unreadable"}
    THEN [config |-> Some(DefaultConfig), raised |-> ""]
    ELSE IF file.kind = "invalid" THEN [config |-> None, raised |-> "TOMLDecodeError"]
    ELSE IF file.kind = "nontable" THEN [config |-> None, raised |-> "AttributeError"]
    ELSE LET defaults == file.defaults
         IN  [config |->
                Some([language |-> IF Get(defaults, "language") = None THEN "java"
                                   ELSE TableText("language", defaults["language"]),
                      owner |-> IF Get(defaults, "owner") = None THEN None
                                ELSE Some(TableText("owner", defaults["owner"])),
                      repo |-> IF Get(defaults, "repo") = None THEN None
                               ELSE Some(TableText("repo", defaults["repo"]))]),
              raised |-> ""]

\* CLIConfig.load(path): the configuration, or the exception that leaves it.
Load(file) ==
    IF file.kind \in {"nopath", "missing"}
    THEN [config |-> Some(DefaultConfig), raised |-> ""]
    ELSE IF file.kind = "unreadable" THEN [config |-> None, raised |-> "RuntimeError"]
    ELSE IF file.kind = "invalid" THEN [config |-> None, raised |-> "TOMLDecodeError"]
    ELSE IF file.kind = "nontable" THEN [config |-> None, raised |-> "AttributeError"]
    ELSE LET defaults == file.defaults
         IN  [config |->
                Some([language |-> IF Get(defaults, "language") = None THEN "java"
                                   ELSE TableText("language", defaults["language"]),
                      owner |-> IF Get(defaults, "owner") = None THEN None
                                ELSE Some(TableText("owner", defaults["owner"])),
                      repo |-> IF Get(defaults, "repo") = None THEN None
                               ELSE Some(TableText("repo", defaults["repo"]))]),
              raised |-> ""]

\* The external world with the configuration file found at the root.
ConfigWorlds ==
    { [status |-> <<>>, branch |-> <<"main", "\n">>, rc |-> f] : f \in RcFiles }

\* The process has started and no CommandContext exists yet.
InitConfig ==
    /\ commands = << >>
    /\ call = [op |-> "none", spec |-> None, tokens |-> <<>>]
    /\ ret = [raised |-> "", spec |-> None, rest |-> <<>>]
    /\ ctx = None
    /\ world \in ConfigWorlds
    /\ procs = <<>>
    /\ out = <<>>
    /\ files = <<>>
    /\ invoked = [handler |-> "", args |-> <<>>]
    /\ err = <<>>
    /\ runRet = None
    /\ options = None
    /\ steps = <<>>
    /\ idx = 0
    /\ called = <<>>
    /\ result = None
    /\ raised = None
    /\ code = None
    /\ phase = "start"

\* CommandContext(cwd=..., env=..., dry_run=...): the config field is filled by
\* its default factory, CLIConfig.load(<root>/.artagonrc); an exception of load
\* leaves the construction.
ConstructContext(env, dry_run) ==
    LET l == Load(world.rc)
    IN  /\ phase = "start"
        /\ IF l.raised # ""
           THEN /\ raised' = Exc(l.raised, IF l.raised = "RuntimeError"
                                              THEN "Failed to read config" ELSE "")
                /\ phase' = "done"
                /\ UNCHANGED ctx
           ELSE /\ ctx' = Some(CommandContext("root", env, dry_run, l.config[1]))
                /\ phase' = "ready"
                /\ UNCHANGED raised
        /\ UNCHANGED <<commands, call, ret, world, invoked, err, procs, out, files,
                       runRet, options, steps, idx, called, result, code>>

ConstructContextAny == \E env \in Envs, dry_run \in BOOLEAN : ConstructContext(env, dry_run)

NextConfig == ConstructContextAny

SpecConfig == InitConfig /\ [][NextConfig]_vars

\* The configuration the constructed context holds agrees with the table t:
\* each key from the table, the default where the key is missing.
ConfigFromTable(config, t) ==
    /\ config.language = (IF "language" \in DOMAIN t
                          THEN TableText("language", t["language"])
                          ELSE DefaultConfig.language)
    /\ \A key \in {"owner", "repo"} :
          config[key] = (IF key \in DOMAIN t
                         THEN Some(TableText(key, t[key]))
                         ELSE DefaultConfig[key])

\* C15 as stated: loading yields the defaults and never fails when the file is
\* absent or unreadable; a readable file gives the values of its defaults
\* table, with the defaults for missing keys.
C15_AsStated ==
    phase # "start" =>
        /\ world.rc.kind \in {"nopath", "missing", "unreadable"}
              => /\ raised = None
                 /\ ctx # None
                 /\ ctx[1].config = DefaultConfig
        /\ world.rc.kind \in {"nodefaults", "table"}
              => /\ raised = None
                 /\ ctx # None
                 /\ ConfigFromTable(ctx[1].config, world.rc.defaults)

\* C15 (amended): loading yields the defaults and does not fail when there is
\* no path or no file; a file that exists but cannot be read makes load raise
\* RuntimeError and no context is built; a readable document gives the values
\* of its defaults table, with the defaults for missing keys (and for a
\* missing table); a file that is not TOML, or whose `defaults` is not a table,
\* makes load raise.
C15_DefaultsWhenAbsentErrorWhenUnreadable ==
    phase # "start" =>
        /\ world.rc.kind \in {"nopath", "missing"}
              => /\ raised = None
                 /\ ctx # None
                 /\ ctx[1].config = DefaultConfig
        /\ world.rc.kind = "unreadable"
              => /\ raised = Exc("RuntimeError", "Failed to read config")
                 /\ ctx = None
                 /\ phase = "done"
        /\ world.rc.kind \in {"invalid", "nontable"}
              => /\ raised # None
                 /\ ctx = None
        /\ world.rc.kind \in {"nodefaults", "table"}
              => /\ raised = None
                 /\ ctx # None
                 /\ ConfigFromTable(ctx[1].config, world.rc.defaults)

\* C15 witness: the file exists and cannot be read; the construction of the
\* context ended with the RuntimeError.
C15_Witness ==
    /\ world.rc.kind = "unreadable"
    /\ phase = "done"
    /\ raised = Exc("RuntimeError", "Failed to read config")
    /\ ctx = None

\* ------------------------------------------------------------------- frame

\* C16: no step of a handler pipeline changes the CommandContext (root
\* directory, environment, dry-run flag, configuration): it is the same after
\* the handler returned or failed as before; the steps write only the fields
\* version, branch and next_version of the handler-local options.
C16_ContextNeverMutated ==
    [][/\ ctx' = ctx
       /\ (options # None =>
              /\ options' # None
              /\ options'[1].action = options[1].action
              /\ options'[1].deploy = options[1].deploy
              /\ options'[1].allow_mismatch = options[1].allow_mismatch)]_vars

\* C16 witness: a release run entered without --version completed: the steps
\* wrote the inferred version, the branch and the next version into the
\* options.
C16_Witness ==
    /\ invoked = [handler |-> "handle_release", args |-> <<"run">>]
    /\ phase = "done"
    /\ code = Some(0)
    /\ called = RunOrder
    /\ options[1].version = Some(<<"1", ".", "2">>)
    /\ options[1].branch = Some(<<"release-", "1", ".", "2">>)
    /\ options[1].next_version = Some(<<"1", ".", "3", "-SNAPSHOT">>)
    /\ procs # <<>>

\* ------------------------------------------------------------ return value

\* C17: a composed pipeline returns what its last step returned, whatever the
\* earlier steps returned; a pipeline of no steps returns None and calls
\* nothing.
C17_ReturnsLastStepValue ==
    (phase = "done" /\ raised = None) =>
        /\ steps = <<>> => (result = Some("None") /\ called = <<>>)
        /\ steps # <<>> => result = Some(steps[Len(steps)].value)

\* C17 witness: three steps returned v1, v2 and None in that order, and the
\* pipeline returned None.
C17_Witness ==
    /\ phase = "done"
    /\ raised = None
    /\ Len(steps) = 3
    /\ steps[1].value = "v1"
    /\ steps[2].value = "v2"
    /\ steps[3].value = "None"
    /\ called = steps
    /\ result = Some("None")

\* ---------------------------------------------------------------- dispatch

\* The words of a command line.
CliWords ==
    {"java", "release", "snapshot", "security", "gh", "unknown",
     "run", "tag", "branch", "cut", "stage", "publish", "update", "protect",
     "--version", "--allow-branch-mismatch", "--deploy", "--branch", "1.2", "main"}

\* A word as the token the shell hands over: "java" and "gh" letter by
\* letter, every other word as one symbol.
WordChars(w) ==
    CASE w = "java" -> <<"j", "a", "v", "a">>
      [] w = "gh" -> <<"g", "h">>
      [] OTHER -> <<w>>

\* "jAvA": the first word written with capitals
JavaCapitals == <<"j", "A", "v", "A">>

\* The text of a token, as the handlers' parsers compare it.
Text(token) == CHOOSE w \in CliWords : WordChars(w) = token

Texts(tokens) == [i \in DOMAIN tokens |-> Text(tokens[i])]

Tokens(words) == [i \in DOMAIN words |-> WordChars(words[i])]

\* @registry.command(path, help) of the java module, in import order
JavaCommands ==
    << CommandSpec(Join(Tokens(<<"java", "release">>)), "handle_release"),
       CommandSpec(Join(Tokens(<<"java", "snapshot">>)), "handle_snapshot"),
       CommandSpec(Join(Tokens(<<"java", "security">>)), "handle_security"),
       CommandSpec(Join(Tokens(<<"java", "gh">>)), "handle_github") >>

\* register applied to each spec of the list in turn
RECURSIVE RegisterAll(_, _)
RegisterAll(cmds, specs) ==
    IF specs = <<>> THEN cmds
    ELSE RegisterAll(RegisterStore(cmds, Head(specs)), Tail(specs))

\* The command lines of the model (after the global --dry-run flag).
CliArgvs ==
    { Tokens(w) : w \in
        { <<"unknown">>, <<"java">>, <<"java", "unknown">>, <<"release", "run">>,
          <<"java", "release">>,
          <<"java", "release", "run", "--version", "1.2", "--allow-branch-mismatch">>,
          <<"java", "release", "tag", "1.2">>,
          <<"java", "release", "branch", "cut", "1.2">>,
          <<"java", "release", "branch", "stage", "--deploy">>,
          <<"java", "snapshot", "publish">>,
          <<"java", "security", "update">>,
          <<"java", "gh", "protect">> } }
    \cup { <<JavaCapitals>> \o Tokens(<<"gh", "protect", "--branch", "main">>),
           <<JavaCapitals>> \o Tokens(<<"unknown">>) }

CliWorlds ==
    { [status |-> <<>>, branch |-> b, argv |-> t] :
        b \in { <<"main", "\n">>, <<"release-", "1", ".", "2", "\n">> }, t \in CliArgvs }

CliContexts ==
    { CommandContext("root", e, d, c) :
        e \in { << >>, [v \in {SKIP_GIT_CLEAN, SKIP_RELEASE_STEPS} |-> "1"] },
        d \in BOOLEAN,
        c \in { DefaultConfig,
                [language |-> "java", owner |-> Some("artagon"),
                 repo |-> Some("artagon-common")] } }

\* The commands are registered, the context is built, nothing has run.
InitCli ==
    /\ commands = RegisterAll(<< >>, JavaCommands)
    /\ call = [op |-> "none", spec |-> None, tokens |-> <<>>]
    /\ ret = [raised |-> "", spec |-> None, rest |-> <<>>]
    /\ ctx \in CliContexts
    /\ world \in CliWorlds
    /\ procs = <<>>
    /\ out = <<>>
    /\ files = <<>>
    /\ invoked = [handler |-> "", args |-> <<>>]
    /\ err = <<>>
    /\ runRet = None
    /\ options = None
    /\ steps = <<>>
    /\ idx = 0
    /\ called = <<>>
    /\ result = None
    /\ raised = None
    /\ code = None
    /\ phase = "idle"

\* Mutant: an unknown command path is passed over in silence.
DispatchOutcomeSilent(found) ==
    IF found.spec = None
    THEN [handler |-> None, code |-> Some(0), err |-> <<>>]
    ELSE [handler |-> Some(found.spec[1].handler), code |-> None, err |-> <<>>]

\* What the dispatcher does with the result of registry.find: no spec, the
\* "Unknown command path" message on standard error and exit status 2; a
\* spec, its handler is called with the remaining tokens.
DispatchOutcome(found) ==
    IF found.spec = None
    THEN [handler |-> None, code |-> Some(2),
          err |-> <<Line("Unknown command path", found.rest)>>]
    ELSE [handler |-> Some(found.spec[1].handler), code |-> None, err |-> <<>>]

\* The dispatcher ends without calling a handler.
DispatchExit(d) ==
    /\ phase = "idle"
    /\ err' = err \o d.err
    /\ code' = d.code
    /\ phase' = "done"
    /\ UNCHANGED <<commands, call, ret, ctx, world, invoked, procs, out, files,
                   runRet, options, steps, idx, called, result, raised>>

\* The dispatcher: resolve the tokens against the registry, then call the
\* handler found with the remaining tokens.
Dispatch ==
    LET found == FindResult(commands, world.argv)
        d == DispatchOutcome(found)
    IN  /\ invoked.handler = ""
        /\ IF d.handler = None THEN DispatchExit(d)
           ELSE IF d.handler[1] = "handle_release" THEN HandleReleaseArgs(Texts(found.rest))
           ELSE IF d.handler[1] = "handle_snapshot" THEN HandleSnapshotArgs(Texts(found.rest))
           ELSE IF d.handler[1] = "handle_security" THEN HandleSecurityArgs(Texts(found.rest))
           ELSE HandleGithubArgs(Texts(found.rest))

NextCli ==
    \/ Dispatch
    \/ EnsureRepositoryClean
    \/ EnsureReleaseBranch
    \/ LogReleasePlan
    \/ ValidateBuild
    \/ UpdateVersionsToRelease
    \/ UpdateChecksums
    \/ CommitRelease
    \/ DeployRelease
    \/ BumpToNextSnapshot
    \/ CommitNextIteration
    \/ SummarizeRelease
    \/ CreateReleaseTag
    \/ CreateReleaseBranch
    \/ SummarizeStage
    \/ HandleReleaseReturn

SpecCli == InitCli /\ [][NextCli]_vars

\* No non-empty prefix of the command line is a registered command path.
Unresolved(argv) ==
    \A i \in 1..Len(argv) :
        \A P \in Registered : LoweredJoin(SubSeq(argv, 1, i)) # NormalizeKey(P.path)

\* C18: a command line whose tokens resolve to no registered command path runs
\* no handler, ends with exit status 2, and writes a message containing
\* "Unknown command path" on standard error.
C18_UnknownCommandExitsTwo ==
    (Unresolved(world.argv) /\ phase # "idle") =>
        /\ phase = "done"
        /\ code = Some(2)
        /\ raised = None
        /\ err # <<>>
        /\ err[Len(err)].tag = "Unknown command path"
        /\ invoked.handler = ""
        /\ options = None
        /\ called = <<>>
        /\ procs = <<>>
        /\ out = <<>>
        /\ files = <<>>

\* C18 witness: the command line `unknown`, not under dry-run, ended with
\* status 2 and the message, with the four java commands registered.
C18_Witness ==
    /\ world.argv = << <<"unknown">> >>
    /\ ~ctx.dry_run
    /\ Cardinality(Registered) = 4
    /\ phase = "done"
    /\ code = Some(2)
    /\ err = <<Line("Unknown command path", << <<"unknown">> >>)>>
    /\ invoked.handler = ""

\* -------------------------------------------------------------- gh protect

\* The contexts whose configuration was loaded from a configuration file.
GithubContexts ==
    { CommandContext("root", e, d, Load(f).config[1]) :
        e \in Envs, d \in BOOLEAN, f \in { g \in RcFiles : Load(g).raised = "" } }

InitGithub == \E c \in GithubContexts : InitWith(c, DefaultWorld)

NextGithub == HandleGithubAny

SpecGithub == InitGithub /\ [][NextGithub]_vars

\* A text is configured: present and not empty.
Configured(opt) == opt # None /\ opt[1] # ""

\* The branch a `gh protect` argument list asks for.
RequestedBranch(a) ==
    IF \E i \in 1..(Len(a) - 1) : a[i] = "--branch"
    THEN a[(CHOOSE i \in 1..(Len(a) - 1) : a[i] = "--branch") + 1]
    ELSE "main"

\* The commands handed to run so far: those started, or echoed under dry-run.
HandedToRun ==
    [i \in 1..Len(procs) |-> procs[i].argv] \o [i \in 1..Len(out) |-> out[i].text]

\* The command has the option `flag` followed by `value`.
HasOption(command, flag, value) ==
    \E i \in 3..(Len(command) - 1) : command[i] = flag /\ command[i + 1] = value

\* C19 as stated: exactly one command is handed to run; it has --repo followed
\* by the configured repo, or by the root directory's name when the
\* configuration has no repo, --branch followed by the requested branch, and
\* --owner followed by the configured owner exactly when the configuration has
\* an owner; the handler then returns 0.
C19_AsStated ==
    (invoked.handler = "handle_github" /\ ParseGhArgs(invoked.args) # None) =>
        /\ Len(HandedToRun) = 1
        /\ LET command == HandedToRun[1]
           IN  /\ HasOption(command, "--repo",
                            IF ctx.config.repo # None THEN ctx.config.repo[1]
                            ELSE PathName(ctx.cwd))
               /\ HasOption(command, "--branch", RequestedBranch(invoked.args))
               /\ ctx.config.owner # None
                     => HasOption(command, "--owner", ctx.config.owner[1])
               /\ ctx.config.owner = None
                     => \A i \in 3..Len(command) : command[i] # "--owner"
        /\ raised = None => code = Some(0)

\* C19 (amended): for `gh protect` exactly one command is handed to run; it has
\* --repo followed by the configured repo when that is a non-empty text and by
\* the root directory's name otherwise, --branch followed by the requested
\* branch (main by default), and --owner followed by the configured owner
\* exactly when the configured owner is a non-empty text; the handler returns 0
\* unless the command, run for real, exits non-zero.
C19_GhProtectCommand ==
    (invoked.handler = "handle_github" /\ ParseGhArgs(invoked.args) # None) =>
        /\ Len(HandedToRun) = 1
        /\ LET command == HandedToRun[1]
           IN  /\ HasOption(command, "--repo",
                            IF Configured(ctx.config.repo) THEN ctx.config.repo[1]
                            ELSE PathName(ctx.cwd))
               /\ HasOption(command, "--branch", RequestedBranch(invoked.args))
               /\ Configured(ctx.config.owner)
                     => HasOption(command, "--owner", ctx.config.owner[1])
               /\ ~Configured(ctx.config.owner)
                     => \A i \in 3..Len(command) : command[i] # "--owner"
        /\ raised = None => code = Some(0)
        /\ raised # None => (raised = Exc("CalledProcessError", "") /\ ~ctx.dry_run)

\* C19 witness: `gh protect --branch develop` under dry-run with the owner
\* artagon and an empty repo text in the configuration file: the echoed
\* command names the root directory, the branch and the owner, and the handler
\* returned 0.
C19_Witness ==
    /\ invoked = [handler |-> "handle_github",
                  args |-> <<"protect", "--branch", "develop">>]
    /\ ctx.dry_run
    /\ ctx.config.owner = Some("artagon")
    /\ ctx.config.repo = Some("")
    /\ code = Some(0)
    /\ procs = <<>>
    /\ Len(out) = 1
    /\ HasOption(out[1].text, "--repo", "checkout")
    /\ HasOption(out[1].text, "--branch", "develop")
    /\ HasOption(out[1].text, "--owner", "artagon")

\* ------------------------------------------------- step lists of the actions

IsEcho(line) == line.tag = "[dry-run]"

IsWrite(p) == ~p.read_only

\* The first three words of the commands that are not read-only, in the order
\* run was called with them: started for real, or echoed under dry-run.
IssuedKeys ==
    IF ctx.dry_run
    THEN LET e == SelectSeq(out, IsEcho)
         IN  [i \in 1..Len(e) |-> <<e[i].text[1], e[i].text[2], e[i].text[3]>>]
    ELSE LET w == SelectSeq(procs, IsWrite)
         IN  [i \in 1..Len(w) |-> <<w[i].argv[1], w[i].argv[2], w[i].argv[3]>>]

\* Word k of the j-th command that is not read-only.
IssuedWord(j, k) ==
    IF ctx.dry_run THEN SelectSeq(out, IsEcho)[j].text[k]
    ELSE SelectSeq(procs, IsWrite)[j].argv[k]

\* The steps and the commands the claim gives for an action other than run.
ClaimedSteps(o) ==
    CASE o.action = "TAG" ->
            <<"ensure_repository_clean", "ensure_release_branch", "log_release_plan",
              "create_release_tag">>
      [] o.action = "BRANCH_CUT" ->
            <<"ensure_repository_clean", "log_release_plan", "create_release_branch">>
      [] o.action = "BRANCH_STAGE" /\ o.deploy ->
            <<"ensure_repository_clean", "ensure_release_branch", "log_release_plan",
              "validate_build", "deploy_release", "summarize_stage">>
      [] OTHER ->
            <<"ensure_repository_clean", "ensure_release_branch", "log_release_plan",
              "validate_build", "summarize_stage">>

ClaimedCommands(o) ==
    CASE o.action = "TAG" -> << <<"git", "tag", "-a">>, <<"git", "push", "origin">> >>
      [] o.action = "BRANCH_CUT" ->
            << <<"git", "fetch", "origin">>, <<"git", "checkout", "-b">>,
               <<"git", "push", "--set-upstream">> >>
      [] o.action = "BRANCH_STAGE" /\ SkipReleaseSteps(ctx) -> << >>
      [] o.action = "BRANCH_STAGE" /\ o.deploy ->
            << <<"mvn", "clean", "verify">>, <<"mvn", "clean", "deploy">> >>
      [] OTHER -> << <<"mvn", "clean", "verify">> >>

\* C20: handle_release builds, for tag: clean check, branch check, plan, create
\* tag (git tag, then git push of that tag); for branch cut: clean check, plan,
\* create branch (no branch check; fetch, checkout -b release-<version>, push,
\* in that order); for branch stage: clean check, branch check, plan, validate
\* build, deploy, stage summary, with deploy present only when --deploy was
\* given and never run before validate build succeeded.
C20_StepListByAction ==
    (options # None /\ options[1].action # "RUN") =>
        LET o == options[1]
        IN  /\ steps = ClaimedSteps(o)
            /\ IsPrefix(called, steps)
            /\ IsPrefix(IssuedKeys, ClaimedCommands(o))
            /\ \A i \in 1..Len(procs) : procs[i].returncode # 0 => i = Len(procs)
            /\ (code = Some(0) => called = steps /\ IssuedKeys = ClaimedCommands(o))
            /\ (o.action = "TAG" /\ Len(IssuedKeys) >= 1)
                  => IssuedWord(1, 4) = <<"v", o.version[1]>>
            /\ (o.action = "TAG" /\ Len(IssuedKeys) = 2)
                  => IssuedWord(2, 4) = IssuedWord(1, 4)
            /\ (o.action = "BRANCH_CUT" /\ Len(IssuedKeys) >= 2)
                  => IssuedWord(2, 4) = ReleasePrefix \o o.version[1]
            /\ (o.action = "BRANCH_CUT" /\ Len(IssuedKeys) = 3)
                  => IssuedWord(3, 5) = ReleasePrefix \o o.version[1]
            /\ (o.action = "BRANCH_STAGE" /\ ~o.deploy)
                  => \A i \in 1..Len(called) : called[i] # "deploy_release"

\* C20 witness: `branch stage --deploy` run for real on a release branch:
\* validate build, then deploy, then the stage summary, and status 0.
C20_Witness ==
    /\ invoked = [handler |-> "handle_release", args |-> <<"branch", "stage", "--deploy">>]
    /\ ~ctx.dry_run
    /\ ~SkipReleaseSteps(ctx)
    /\ code = Some(0)
    /\ called = <<"ensure_repository_clean", "ensure_release_branch", "log_release_plan",
                  "validate_build", "deploy_release", "summarize_stage">>
    /\ IssuedKeys = << <<"mvn", "clean", "verify">>, <<"mvn", "clean", "deploy">> >>

\* ----------------------------------------------- branch inference: claims

\* The branch name ensure_release_branch reads: result.stdout.strip()
CurrentBranch == Strip(world.branch)

OnReleaseBranch == StartsWith(CurrentBranch, ReleasePrefix)

\* X of the current branch release-X
BranchVersion == RemovePrefix(CurrentBranch, ReleasePrefix)

\* The version written on the command line of `java release`, if any.
GivenVersion(a) ==
    IF a # <<>> /\ a[1] = "run" /\ (\E i \in 2..(Len(a) - 1) : a[i] = "--version")
    THEN Some(Chars(a[(CHOOSE i \in 2..(Len(a) - 1) : a[i] = "--version") + 1]))
    ELSE IF Len(a) = 2 /\ a[1] = "tag" THEN Some(Chars(a[2]))
    ELSE IF Len(a) = 3 /\ a[1] = "branch" /\ a[2] = "cut" THEN Some(Chars(a[3]))
    ELSE None

\* handle_release was entered with well-formed arguments.
ReleaseEntered == invoked.handler = "handle_release" /\ options # None

\* `java release run` without --version
RunWithoutVersion ==
    /\ ReleaseEntered
    /\ invoked.args # <<>>
    /\ invoked.args[1] = "run"
    /\ GivenVersion(invoked.args) = None

\* ensure_release_branch was called as second step and returned.
InferenceDone ==
    /\ ReleaseEntered
    /\ Len(called) >= 2
    /\ called[2] = "ensure_release_branch"
    /\ idx >= 2

\* The runner calls step `name` in this transition.
Calls(name) == called' = Append(called, name)

\* What this transition adds to the logs.
NewProcs == SubSeq(procs', Len(procs) + 1, Len(procs'))

NewOut == SubSeq(out', Len(out) + 1, Len(out'))

NewFiles == SubSeq(files', Len(files) + 1, Len(files'))

\* The commands this transition hands to run without read_only: started for
\* real, or echoed under dry-run.
StepIssued ==
    IF ctx.dry_run
    THEN LET e == SelectSeq(NewOut, IsEcho) IN [i \in 1..Len(e) |-> e[i].text]
    ELSE LET w == SelectSeq(NewProcs, IsWrite) IN [i \in 1..Len(w) |-> w[i].argv]

\* The commands of a release of version v, as the claim names them.
VersionUpdateOf(v) ==
    << <<"mvn", "versions:set", <<"-DnewVersion=", v>> >>, <<"mvn", "versions:commit">>,
       <<"mvn", "versions:set", <<"-DnewVersion=", v>> >>, <<"mvn", "versions:commit">> >>

ReleaseCommitOf(v) ==
    << <<"git", "add", ".">>,
       <<"git", "commit", "-m", <<"Release version ", v>> >>,
       <<"git", "tag", "-a", <<"v", v>>, "-m", <<"Release ", v>> >> >>

\* The step called in this transition issued a prefix of cmds, and all of
\* them when it returned and the release steps are not stubbed.
IssuesExactly(cmds) ==
    /\ IsPrefix(StepIssued, cmds)
    /\ (idx' = idx + 1 /\ ~SkipReleaseSteps(ctx)) => StepIssued = cmds

\* C21: release run without --version on branch release-X: branch inference
\* sets the options' branch to release-X and version to X, and every later step
\* of the pipeline reads those values: the plan line shows version X, the
\* version update sets X and writes X into the parent pom, the release commit
\* message and the tag v<X> carry X, the summary shows X and release-X; a
\* version given on the command line is never replaced by branch inference.
C21_InferredValuesThreaded ==
    /\ []((ReleaseEntered /\ GivenVersion(invoked.args) # None)
            => options[1].version = GivenVersion(invoked.args))
    /\ [][(RunWithoutVersion /\ OnReleaseBranch) =>
            /\ (Calls("ensure_release_branch") /\ idx' = idx + 1)
                  => /\ options'[1].branch = Some(CurrentBranch)
                     /\ options'[1].version = Some(BranchVersion)
            /\ InferenceDone =>
                  /\ options[1].branch = Some(CurrentBranch)
                  /\ options[1].version = Some(BranchVersion)
                  /\ options'[1].branch = Some(CurrentBranch)
                  /\ options'[1].version = Some(BranchVersion)
                  /\ Calls("log_release_plan")
                        => NewOut = <<Line("[PLAN]", [action |-> "RUN",
                                                      version |-> Some(BranchVersion),
                                                      deploy |-> FALSE])>>
                  /\ Calls("update_versions_to_release")
                        => /\ IssuesExactly(IF BranchVersion = <<>> THEN <<>>
                                            ELSE VersionUpdateOf(BranchVersion))
                           /\ \A i \in 1..Len(NewFiles) :
                                 NewFiles[i].version = BranchVersion
                  /\ Calls("commit_release")
                        => IssuesExactly(IF BranchVersion = <<>> THEN <<>>
                                         ELSE ReleaseCommitOf(BranchVersion))
                  /\ Calls("summarize_release")
                        => NewOut = <<Line("Release complete!",
                                           [version |-> Some(BranchVersion),
                                            branch |-> Some(CurrentBranch),
                                            next_version |-> options[1].next_version])>>
         ]_vars

\* C21 witness: `java release run` on branch release-1.2, run for real to its
\* end: the options hold release-1.2 and 1.2, the pom was written with 1.2 and
\* the tag v1.2 was created.
C21_Witness ==
    /\ invoked = [handler |-> "handle_release", args |-> <<"run">>]
    /\ CurrentBranch = ReleasePrefix \o <<"1", ".", "2">>
    /\ ~ctx.dry_run
    /\ ~SkipReleaseSteps(ctx)
    /\ code = Some(0)
    /\ options[1].branch = Some(ReleasePrefix \o <<"1", ".", "2">>)
    /\ options[1].version = Some(<<"1", ".", "2">>)
    /\ files[1].version = <<"1", ".", "2">>
    /\ \E i \in 1..Len(procs) :
          /\ IsCommand(procs[i], "git", "tag")
          /\ procs[i].argv[4] = <<"v", <<"1", ".", "2">> >>

\* A step after the branch check (the third step or a later one) was called.
StepAfterInferenceCalled ==
    /\ Len(called) >= 3
    /\ called[2] = "ensure_release_branch"

\* run, tag or branch stage, entered without --allow-branch-mismatch
CheckedAction ==
    /\ ReleaseEntered
    /\ options[1].action \in {"RUN", "TAG", "BRANCH_STAGE"}
    /\ ~options[1].allow_mismatch

\* The tag names of the `git tag` commands started so far.
TagsCreated ==
    LET t == SelectSeq(procs, LAMBDA p : IsCommand(p, "git", "tag"))
    IN  { t[i].argv[4] : i \in 1..Len(t) }

\* The tag names of the `git tag` commands echoed under dry-run.
TagsEchoed ==
    LET e == SelectSeq(out, LAMBDA l : IsEcho(l) /\ l.text[1] = "git" /\ l.text[2] = "tag")
    IN  { e[i].text[4] : i \in 1..Len(e) }

\* C22: for run, tag and branch stage without --allow-branch-mismatch, a step
\* after branch inference is called only when the current branch is release-V
\* and the version given on the command line is absent or equal to V; so the
\* version of the options is V, and every tag that release run or release tag
\* creates (or echoes under dry-run) is v<V>.
C22_MismatchStopsPipeline ==
    (CheckedAction /\ StepAfterInferenceCalled) =>
        /\ OnReleaseBranch
        /\ GivenVersion(invoked.args) \in {None, Some(BranchVersion)}
        /\ options[1].version = Some(BranchVersion)
        /\ options[1].branch = Some(CurrentBranch)
        /\ TagsCreated \subseteq { <<"v", BranchVersion>> }
        /\ TagsEchoed \subseteq { <<"v", BranchVersion>> }

\* C22 witness: `java release tag 1.2` on branch release-1.2, run for real: the
\* tag step ran after the branch check and created v1.2.
C22_Witness ==
    /\ invoked = [handler |-> "handle_release", args |-> <<"tag", "1.2">>]
    /\ CheckedAction
    /\ StepAfterInferenceCalled
    /\ CurrentBranch = ReleasePrefix \o <<"1", ".", "2">>
    /\ code = Some(0)
    /\ TagsCreated = { <<"v", <<"1", ".", "2">> >> }

\* ------------------------------------------- run without a version: claims

\* `java release run --allow-branch-mismatch` on a branch that is not
\* release-*: no version on the command line and none inferred.
NoVersionRun ==
    /\ ReleaseEntered
    /\ invoked.args = <<"run", "--allow-branch-mismatch">>
    /\ ~OnReleaseBranch

\* A command that sets a version, stages, commits, tags or deploys.
IsReleaseWrite(argv) ==
    \/ argv[1] = "mvn" /\ argv[2] = "versions:set"
    \/ argv[1] = "mvn" /\ argv[2] = "clean" /\ argv[3] = "deploy"
    \/ argv[1] = "git" /\ argv[2] \in {"add", "commit", "tag"}

\* No such command was started, none was echoed under dry-run, and no file
\* was written.
NoReleaseWrites ==
    /\ \A i \in 1..Len(procs) : ~IsReleaseWrite(procs[i].argv)
    /\ \A i \in 1..Len(out) : IsEcho(out[i]) => ~IsReleaseWrite(out[i].text)
    /\ files = <<>>

\* An external command of the pipeline exited non-zero.
CommandFailed == \E i \in 1..Len(procs) : procs[i].returncode # 0

\* C23 as stated: a release run in which no version is determined ends with
\* exit status 1 and never sets a version, stages, commits, tags, deploys or
\* writes the parent pom.
C23_AsStated ==
    NoVersionRun =>
        /\ NoReleaseWrites
        /\ phase = "done" => code = Some(1)

\* C23 (amended): such a run never sets a version, stages, commits, tags,
\* deploys or writes the parent pom and never returns 0; it calls no step
\* after the version update; it ends with exit status 1 when every external
\* command it started (git status, git symbolic-ref, mvn clean verify)
\* succeeded, and with the CalledProcessError of the failed command, not
\* turned into an exit status, otherwise.
C23_NoVersionNoRelease ==
    NoVersionRun =>
        /\ options[1].version = None
        /\ NoReleaseWrites
        /\ IsPrefix(called, SubSeq(RunOrder, 1, 5))
        /\ code # Some(0)
        /\ phase = "done" =>
              /\ raised # None
              /\ IF CommandFailed
                 THEN /\ raised[1].cls = "CalledProcessError"
                      /\ code = None
                      /\ procs[Len(procs)].returncode # 0
                      /\ \/ IsCommand(procs[Len(procs)], "git", "status")
                         \/ IsCommand(procs[Len(procs)], "git", "symbolic-ref")
                         \/ IsCommand(procs[Len(procs)], "mvn", "clean")
                 ELSE /\ raised[1].cls = "RuntimeError"
                      /\ code = Some(1)
                      /\ out[Len(out)].tag = "Error:"

\* C23 witness: the run on main with the override, for real: the build was
\* verified, the version update refused to run, the handler returned 1.
C23_Witness ==
    /\ NoVersionRun
    /\ CurrentBranch = <<"main">>
    /\ ~ctx.dry_run
    /\ ~SkipReleaseSteps(ctx)
    /\ phase = "done"
    /\ code = Some(1)
    /\ called = SubSeq(RunOrder, 1, 5)
    /\ raised = Exc("RuntimeError", "Release version is not set.")
    /\ IsCommand(procs[Len(procs)], "mvn", "clean")
    /\ ~CommandFailed

\* ------------------------------------------------- next snapshot version

\* The dot-separated components the versions of this part are made of:
\* numerals, numerals int() also reads (leading zero, sign, blank, underscore)
\* and texts it rejects.
VersionParts ==
    { <<>>, <<"1">>, <<"2">>, <<"3">>, <<"9">>, <<"9", "9">>, <<"0", "3">>,
      <<"x">>, <<"3", "a">>, <<"-", "1">>, <<"+", "2">>, <<" ", "4">>,
      <<"1", "_", "0">>, <<"_", "1">> }

\* Every version of up to MaxParts components, and three longer ones.
NextSnapshotVersions ==
    { JoinDots(p) : p \in UNION { [1..n -> VersionParts] : n \in 1..MaxParts } }
    \cup { <<"1", ".", "2", ".", "3">>, <<"1", ".", "2", ".", "9">>,
           <<"1", ".", "2", ".", "x">> }

\* A direct call of calculate_next_snapshot(version).
CalculateNextSnapshot(version) ==
    LET r == calculate_next_snapshot(version)
    IN  /\ phase = "idle"
        /\ call' = [op |-> "calculate_next_snapshot", spec |-> None, tokens |-> <<version>>]
        /\ ret' = IF r = None
                  THEN [raised |-> "ValueError", spec |-> None, rest |-> <<>>]
                  ELSE [raised |-> "", spec |-> None, rest |-> r[1]]
        /\ phase' = "done"
        /\ UNCHANGED <<commands, ctx, world, invoked, err, procs, out, files, runRet,
                       options, steps, idx, called, result, raised, code>>

CalculateNextSnapshotAny == \E v \in NextSnapshotVersions : CalculateNextSnapshot(v)

\* The contexts and git states of the release runs of this part: a clean tree
\* on main or on a release branch.
SnapshotContexts ==
    { CommandContext("root", e, d, DefaultConfig) :
        e \in { m \in Envs : SKIP_GIT_CLEAN \notin DOMAIN m }, d \in BOOLEAN }

SnapshotWorlds ==
    { [status |-> <<>>, branch |-> b] :
        b \in { <<"main", "\n">> }
              \cup { ReleasePrefix \o v \o <<"\n">> : v \in VersionStrings \ {<<>>} } }

InitNextSnapshot == \E c \in SnapshotContexts, w \in SnapshotWorlds : InitWith(c, w)

\* `java release run` with its well-formed argument lists.
RunArgLists == { a \in ReleaseArgLists : ParseReleaseArgs(a) # None /\ a[1] = "run" }

HandleReleaseRun == \E a \in RunArgLists : HandleReleaseArgs(a)

NextNextSnapshot ==
    \/ CalculateNextSnapshotAny
    \/ HandleReleaseRun
    \/ EnsureRepositoryClean
    \/ EnsureReleaseBranch
    \/ LogReleasePlan
    \/ ValidateBuild
    \/ UpdateVersionsToRelease
    \/ UpdateChecksums
    \/ CommitRelease
    \/ DeployRelease
    \/ BumpToNextSnapshot
    \/ CommitNextIteration
    \/ SummarizeRelease
    \/ HandleReleaseReturn

SpecNextSnapshot == InitNextSnapshot /\ [][NextNextSnapshot]_vars

\* The last dot-separated component of a version.
LastPart(version) == SplitDots(version)[Len(SplitDots(version))]

\* r is the components of version with the last replaced by the decimal
\* numeral of its value plus one, followed by -SNAPSHOT.
IsNextSnapshotOf(r, version) ==
    /\ r # <<>>
    /\ r[Len(r)] = "-SNAPSHOT"
    /\ LET was == SplitDots(version)
           now == SplitDots(SubSeq(r, 1, Len(r) - 1))
       IN  /\ Len(now) = Len(was)
           /\ \A i \in 1..(Len(was) - 1) : now[i] = was[i]
           /\ IsInt(now[Len(now)])
           /\ StrOf(IntOf(now[Len(now)])) = now[Len(now)]
           /\ IntOf(now[Len(now)]) = IntOf(was[Len(was)]) + 1

\* A successful command a b is in the process log.
Succeeded(a, b) ==
    \E i \in 1..Len(procs) : IsCommand(procs[i], a, b) /\ procs[i].returncode = 0

\* The release run was stopped by the ValueError of the snapshot bump.
BumpFailed == IsRunAction /\ raised # None /\ raised[1].cls = "ValueError"

\* C24: calculate_next_snapshot returns, for a version whose last component
\* int() reads as n, the same components with the last replaced by n+1,
\* followed by -SNAPSHOT (1.2.3 gives 1.2.4-SNAPSHOT, 1.9 gives 1.10-SNAPSHOT),
\* and raises ValueError for every other version; in release run the
\* ValueError occurs only in the bump step, after the release commit and the
\* deploy step returned (commit, tag and deploy done when run for real), and
\* the handler does not turn it into exit status 1.
C24_NextSnapshot ==
    /\ call.op = "calculate_next_snapshot" =>
          LET version == call.tokens[1]
          IN  /\ IsInt(LastPart(version))
                    => ret.raised = "" /\ IsNextSnapshotOf(ret.rest, version)
              /\ ~IsInt(LastPart(version)) => ret.raised = "ValueError"
              /\ version = <<"1", ".", "2", ".", "3">>
                    => ret.rest = <<"1", ".", "2", ".", "4", "-SNAPSHOT">>
              /\ version = <<"1", ".", "9">>
                    => ret.rest = <<"1", ".", "1", "0", "-SNAPSHOT">>
              /\ version \in { <<>>, <<"1", ".">>, <<"1", ".", "x">>, <<"1", ".", "3", "a">>,
                              <<"1", ".", "2", ".", "x">> }
                    => ret.raised = "ValueError"
    /\ BumpFailed =>
          /\ ~IsInt(LastPart(options[1].version[1]))
          /\ called = SubSeq(RunOrder, 1, 9)
          /\ idx = 8
          /\ phase = "done"
          /\ code = None
          /\ \A i \in 1..Len(out) : out[i].tag # "Error:"
          /\ (~ctx.dry_run /\ ~SkipReleaseSteps(ctx))
                => /\ Succeeded("git", "commit")
                   /\ Succeeded("git", "tag")
                   /\ Succeeded("mvn", "clean")
                   /\ procs[Len(procs)].argv[3] = "deploy"
    /\ (IsRunAction /\ Len(called) >= 9 /\ ~IsInt(LastPart(options[1].version[1])))
          => BumpFailed

\* C24 witness: the direct call on 1.2.9 returned 1.2.10-SNAPSHOT.
C24_Witness ==
    /\ call.op = "calculate_next_snapshot"
    /\ call.tokens = << <<"1", ".", "2", ".", "9">> >>
    /\ ret.raised = ""
    /\ ret.rest = <<"1", ".", "2", ".", "1", "0", "-SNAPSHOT">>

\* The other case of C24: a release run of version 2.x, for real, stopped in
\* the bump step after commit, tag and deploy.
C24_BumpFailureReached ==
    /\ BumpFailed
    /\ ~ctx.dry_run
    /\ ~SkipReleaseSteps(ctx)
    /\ options[1].version = Some(<<"2", ".", "x">>)
    /\ Succeeded("git", "tag")

\* ------------------------------------------------- registry frame: claims

\* Every entry of the registry before this transition is still there, with
\* the same spec (path, help and handler).
KeepsEntries == \A k \in DOMAIN commands : k \in DOMAIN commands' /\ commands'[k] = commands[k]

\* C25: a register call that fails with the duplicate-path error leaves the
\* registry as it was, the spec and handler first registered for the path
\* included; find never changes the registry; a register call that succeeds
\* adds its spec under its normalized path and changes no other entry: so
\* the registry holds exactly the specs of the successful register calls.
C25_RegistryFrame ==
    /\ [](\A k \in DOMAIN commands : commands[k] \in Specs)
    /\ [][/\ call'.op = "find" => commands' = commands
          /\ (call'.op = "register" /\ ret'.raised # "")
                => /\ NormalizeKey(call'.spec[1].path) \in DOMAIN commands
                   /\ commands' = commands
          /\ (call'.op = "register" /\ ret'.raised = "")
                => /\ NormalizeKey(call'.spec[1].path) \notin DOMAIN commands
                   /\ DOMAIN commands'
                         = DOMAIN commands \cup {NormalizeKey(call'.spec[1].path)}
                   /\ commands'[NormalizeKey(call'.spec[1].path)] = call'.spec[1]
                   /\ KeepsEntries
         ]_vars

\* C25 witness: with two paths registered, a register call carrying another
\* handler for one of them was refused, and the handler first registered for
\* that path is still the one in the registry.
C25_Witness ==
    /\ call.op = "register"
    /\ ret.raised = "ValueError"
    /\ Cardinality(DOMAIN commands) >= 2
    /\ commands[NormalizeKey(call.spec[1].path)].handler # call.spec[1].handler

\* ------------------------------------------------ find's result: claims

\* The letter case of the tokens changed to lower case.
LoweredTokens(tokens) == [i \in DOMAIN tokens |-> Lower(tokens[i])]

\* The number of input tokens find matched: those not in the remainder.
MatchedCount == Len(call.tokens) - Len(ret.rest)

\* C26: whenever find returns a spec, the remainder is the suffix of the input
\* left after the matched tokens, in the original order and letter case; at
\* least one token is matched; the lowercased matched tokens joined by single
\* spaces are the normalized path of the returned spec, which is the key it is
\* registered under; and the same input in lower case finds the same spec and
\* leaves a remainder of the same length.
C26_RemainderAndMatchedPath ==
    (call.op = "find" /\ ret.spec # None) =>
        /\ Len(ret.rest) < Len(call.tokens)
        /\ ret.rest = SubSeq(call.tokens, MatchedCount + 1, Len(call.tokens))
        /\ LoweredJoin(SubSeq(call.tokens, 1, MatchedCount))
              = NormalizeKey(ret.spec[1].path)
        /\ NormalizeKey(ret.spec[1].path) \in DOMAIN commands
        /\ commands[NormalizeKey(ret.spec[1].path)] = ret.spec[1]
        /\ FindResult(commands, LoweredTokens(call.tokens)).spec = ret.spec
        /\ Len(FindResult(commands, LoweredTokens(call.tokens)).rest) = Len(ret.rest)

\* C26 witness: the path "a B" is registered; find on the tokens a, b, B
\* matched the first two and returned the third with its capital letter.
C26_Witness ==
    /\ call.op = "find"
    /\ call.tokens = << <<"a">>, <<"b">>, <<"B">> >>
    /\ ret.spec # None
    /\ ret.spec[1].path = PathString(<< <<"a">>, <<"B">> >>, FALSE)
    /\ ret.rest = << <<"B">> >>

====
